---- MODULE Spec2Model ----
(***************************************************************************)
(* KPI dashboard: the threshold banding, the ingestion cycle               *)
(* (process_uploaded_file / check_thresholds), the SQLite store            *)
(* (kpi_data, thresholds, alerts) and the KPI calculator.                  *)
(*                                                                         *)
(* Numbers are exact rationals [num, den] (den > 0, lowest terms); Python  *)
(* floats are modelled without their rounding.  Time is an integer clock   *)
(* of ticks, TicksPerDay ticks to the day; SQLite's CURRENT_TIMESTAMP and  *)
(* datetime('now', ...) read that clock.                                   *)
(***************************************************************************)
EXTENDS Integers, Sequences, FiniteSets, TLC

\* ------------------------------------------------------------------ bounds
MaxTime == 3          \* the clock runs 0..MaxTime
TicksPerDay == 2      \* resolution of the clock
MaxDays == 1          \* days arguments are drawn from 0..MaxDays
MaxHistory == 6       \* rows kpi_data may hold before the ingestion cycles stop
MaxStore == 3         \* rows kpi_data and alerts may hold together before direct
                      \* store_data and log_alert calls stop
MaxBand == 12         \* banding inputs: current in -MaxBand..MaxBand
MaxRows == 3          \* rows of the datasets handed to calculate_kpis
MaxSheetRows == 2     \* rows of the sheets handed to load_excel
MaxIngest == 2        \* rows kpi_data may hold before the uploads of sheets stop
MaxSent == 2          \* messages the log of send_alert may hold before the checks stop
MaxObservers == 2     \* observers a FileMonitor may create
MaxThreads == 2       \* threads a PeriodicChecker may create

\* --------------------------------------------------------------- constants
DefaultHours == 24    \* get_recent_alerts(hours=24)

\* ------------------------------------------------------------ option values
None == [none |-> TRUE]
Some(x) == [none |-> FALSE, val |-> x]

\* ---------------------------------------------------------------- numbers
Abs(x) == IF x < 0 THEN -x ELSE x

RECURSIVE GCD(_, _)
GCD(a, b) == IF b = 0 THEN a ELSE GCD(b, a % b)

\* The rational n/d (d # 0) in lowest terms with a positive denominator.
Num(n, d) ==
    LET g == GCD(Abs(n), Abs(d))
        s == IF d < 0 THEN -1 ELSE 1
    IN  [kind |-> "num", num |-> (s * n) \div g, den |-> (s * d) \div g]

Whole(n) == Num(n, 1)
\* A trend label (a Python str).
Label(s) == [kind |-> "label", label |-> s]
\* float('nan')
NaN == [kind |-> "nan"]
\* A numpy.int64 scalar: a number that is no instance of int or float.
NumpyInt(n) == [kind |-> "int64", num |-> n, den |-> 1]
\* The square root of the rational n/d >= 0 (a standard deviation).
Sqrt(n, d) == IF n = 0 THEN Whole(0)
              ELSE LET r == Num(n, d) IN [kind |-> "sqrt", num |-> r.num, den |-> r.den]

\* isinstance(value, (int, float))
IsNumeric(v) == v.kind \in {"num", "sqrt", "nan"}

RAdd(a, b) == Num(a.num * b.den + b.num * a.den, a.den * b.den)
RSub(a, b) == Num(a.num * b.den - b.num * a.den, a.den * b.den)
RMul(a, b) == Num(a.num * b.num, a.den * b.den)
RDiv(a, b) == Num(a.num * b.den, a.den * b.num)
RLt(a, b) == a.num * b.den < b.num * a.den
RLe(a, b) == a.num * b.den <= b.num * a.den

\* a < b for two Python numbers; every comparison with NaN is False.
Lt(a, b) ==
    CASE a.kind = "nan" \/ b.kind = "nan" -> FALSE
      [] a.kind = "num" /\ b.kind = "num" -> RLt(a, b)
      [] a.kind = "sqrt" /\ b.kind = "num" ->
            b.num > 0 /\ a.num * b.den * b.den < b.num * b.num * a.den
      [] a.kind = "num" /\ b.kind = "sqrt" ->
            a.num < 0 \/ a.num * a.num * b.den < b.num * a.den * a.den
      [] OTHER -> RLt(a, b)

\* ------------------------------------------------------------------ strings
\* A Python str is the sequence of its characters, so that lower(), replace()
\* and the substring test `word in name` are computed on the text itself.
UpperCase == <<"A", "B", "C", "D", "E", "F", "G", "H", "I", "J", "K", "L", "M",
               "N", "O", "P", "Q", "R", "S", "T", "U", "V", "W", "X", "Y", "Z">>
LowerCase == <<"a", "b", "c", "d", "e", "f", "g", "h", "i", "j", "k", "l", "m",
               "n", "o", "p", "q", "r", "s", "t", "u", "v", "w", "x", "y", "z">>
LowerOf == [c \in {UpperCase[k] : k \in 1..26} |->
               LowerCase[CHOOSE k \in 1..26 : UpperCase[k] = c]]
\* str.lower()
Lower(str) ==
    [i \in 1..Len(str) |-> IF str[i] \in DOMAIN LowerOf THEN LowerOf[str[i]] ELSE str[i]]
\* str.replace(old, new) for one-character old and new
Replace(str, old, new) == [i \in 1..Len(str) |-> IF str[i] = old THEN new ELSE str[i]]
\* word in str
In(word, str) ==
    \E i \in 0..(Len(str) - Len(word)) : SubSeq(str, i + 1, i + Len(word)) = word
\* any(word in str for word in words), words a list
AnyIn(words, str) == \E k \in 1..Len(words) : In(words[k], str)

\* The words of the keyword lists.
w_date == <<"d", "a", "t", "e">>
w_time == <<"t", "i", "m", "e">>
w_period == <<"p", "e", "r", "i", "o", "d">>
w_revenue == <<"r", "e", "v", "e", "n", "u", "e">>
w_sales == <<"s", "a", "l", "e", "s">>
w_income == <<"i", "n", "c", "o", "m", "e">>
w_cogs == <<"c", "o", "g", "s">>
w_cost == <<"c", "o", "s", "t">>
w_expense == <<"e", "x", "p", "e", "n", "s", "e">>
w_datetime == <<"d", "a", "t", "e", "t", "i", "m", "e">>
w_timestamp == <<"t", "i", "m", "e", "s", "t", "a", "m", "p">>
w_cost_of_goods_sold ==
    <<"c", "o", "s", "t", "_", "o", "f", "_", "g", "o", "o", "d", "s", "_", "s", "o", "l", "d">>
w_profit == <<"p", "r", "o", "f", "i", "t">>
w_expenses == <<"e", "x", "p", "e", "n", "s", "e", "s">>
w_total_sales == <<"t", "o", "t", "a", "l", "_", "s", "a", "l", "e", "s">>
w_cost_of_sales == <<"c", "o", "s", "t", "_", "o", "f", "_", "s", "a", "l", "e", "s">>
w_costs == <<"c", "o", "s", "t", "s">>

\* The column names of the uploaded sheets.
TotalSales == <<"T", "o", "t", "a", "l", " ", "S", "a", "l", "e", "s">>
CostOfSales == <<"C", "o", "s", "t", " ", "o", "f", " ", "S", "a", "l", "e", "s">>
Revenue == <<"R", "e", "v", "e", "n", "u", "e">>
Sales == <<"S", "a", "l", "e", "s">>
COGS == <<"C", "O", "G", "S">>
Date == <<"D", "a", "t", "e">>
Period == <<"P", "e", "r", "i", "o", "d">>
Notes == <<"N", "o", "t", "e", "s">>

\* ---------------------------------------------------------------- datasets
\* A DataFrame as the normalizer hands it on: its rows in order, each with a
\* revenue and a cogs cell and the set na of the columns whose cell is NaN, a
\* date when the frame has a date column (the rows are then sorted by date);
\* which of the columns date, revenue, cogs and profit the frame has; and the
\* dtype of its revenue and cogs columns (float64, or int64 when every cell of
\* the sheet was a whole number, which leaves no room for a NaN).
Row(r, c) == [date |-> 0, revenue |-> r, cogs |-> c, na |-> {}]
DRow(d, r, c) == [date |-> d, revenue |-> r, cogs |-> c, na |-> {}]
NaRow(r, c, na) == [date |-> 0, revenue |-> r, cogs |-> c, na |-> na]
Frame(rows) ==
    [has_date |-> FALSE, has_revenue |-> TRUE, has_cogs |-> TRUE,
     has_profit |-> FALSE, dtype |-> "float64", rows |-> rows]
DatedFrame(rows) ==
    [has_date |-> TRUE, has_revenue |-> TRUE, has_cogs |-> TRUE,
     has_profit |-> TRUE, dtype |-> "float64", rows |-> rows]
IntFrame(rows) ==
    [has_date |-> FALSE, has_revenue |-> TRUE, has_cogs |-> TRUE,
     has_profit |-> FALSE, dtype |-> "int64", rows |-> rows]

RECURSIVE SeqSum(_)
SeqSum(s) == IF s = <<>> THEN 0 ELSE Head(s) + SeqSum(Tail(s))

\* The cells of a column that are not NaN, in row order: what the pandas
\* reductions (sum, mean, std, median, max, min; skipna=True) go over.
Column(rows, col) ==
    LET kept == SelectSeq(rows, LAMBDA r : col \notin r.na)
    IN  [i \in 1..Len(kept) |-> kept[i][col]]
HasNa(rows, col) == \E i \in 1..Len(rows) : col \in rows[i].na

\* data['revenue'] and data['cogs'], NaN cells dropped
RevenueColumn(data) == Column(data.rows, "revenue")
CogsColumn(data) == Column(data.rows, "cogs")

\* Series.head(k) and Series.tail(k)
SeriesHead(s, k) == SubSeq(s, 1, k)
SeriesTail(s, k) == SubSeq(s, Len(s) - k + 1, Len(s))

SeqMax(s) == CHOOSE x \in {s[i] : i \in 1..Len(s)} : \A j \in 1..Len(s) : s[j] <= x
SeqMin(s) == CHOOSE x \in {s[i] : i \in 1..Len(s)} : \A j \in 1..Len(s) : x <= s[j]

\* The k-th smallest element of s (k = 1 the minimum), ties counted.
Kth(s, k) ==
    CHOOSE x \in {s[i] : i \in 1..Len(s)} :
        /\ Cardinality({i \in 1..Len(s) : s[i] < x}) < k
        /\ Cardinality({i \in 1..Len(s) : s[i] <= x}) >= k

\* Series.mean(): NaN when no cell is left
Mean(s) == IF s = <<>> THEN NaN ELSE Num(SeqSum(s), Len(s))

\* Series.median(): NaN when no cell is left
Median(s) ==
    LET n == Len(s)
    IN  IF n = 0 THEN NaN
        ELSE IF n % 2 = 1 THEN Whole(Kth(s, (n + 1) \div 2))
        ELSE Num(Kth(s, n \div 2) + Kth(s, n \div 2 + 1), 2)

\* Series.std(): the sample standard deviation (ddof = 1), NaN for fewer than
\* two cells.  variance = (n * sum(x^2) - sum(x)^2) / (n * (n - 1))
Std(s) ==
    LET n == Len(s)
        sq == [i \in 1..n |-> s[i] * s[i]]
    IN  IF n < 2 THEN NaN
        ELSE Sqrt(n * SeqSum(sq) - SeqSum(s) * SeqSum(s), n * (n - 1))

\* np.polyfit(range(n), y, 1)[0]: the least-squares slope against the row
\* index 0..n-1, n >= 2, as the exact rational.
PolyfitSlope(y) ==
    LET n == Len(y)
        xs == [i \in 1..n |-> i - 1]
        xy == [i \in 1..n |-> (i - 1) * y[i]]
        xx == [i \in 1..n |-> (i - 1) * (i - 1)]
    IN  Num(n * SeqSum(xy) - SeqSum(xs) * SeqSum(y),
            n * SeqSum(xx) - SeqSum(xs) * SeqSum(xs))

\* ----------------------------------------------------------- KPICalculator
calculate_revenue(data) == IF data.has_revenue THEN SeqSum(RevenueColumn(data)) ELSE 0

calculate_cogs(data) == IF data.has_cogs THEN SeqSum(CogsColumn(data)) ELSE 0

\* Mutant: the difference taken the other way round.
calculate_profit_swapped(data) == calculate_cogs(data) - calculate_revenue(data)

calculate_profit(data) == calculate_revenue(data) - calculate_cogs(data)

\* Mutant: the division left unguarded (numpy gives NaN for 0.0 / 0.0).
calculate_profit_margin_unguarded(data) ==
    LET revenue == calculate_revenue(data)
        profit == calculate_profit(data)
    IN  IF revenue # 0 THEN Num(profit * 100, revenue) ELSE NaN

calculate_profit_margin(data) ==
    LET revenue == calculate_revenue(data)
        profit == calculate_profit(data)
    IN  IF revenue > 0 THEN Num(profit * 100, revenue) ELSE Whole(0)

\* The rows are already in date order, so sort_values('date') keeps them.
\* data.tail(n // 2) and data.head(n // 2) are taken by row, then summed.
calculate_growth_rate(data) ==
    LET n == Len(data.rows)
        current_period == SeqSum(Column(SeriesTail(data.rows, n \div 2), "revenue"))
        previous_period == SeqSum(Column(SeriesHead(data.rows, n \div 2), "revenue"))
    IN  IF ~data.has_revenue \/ n < 2 THEN Whole(0)
        ELSE IF previous_period > 0
             THEN Num((current_period - previous_period) * 100, previous_period)
             ELSE Whole(0)

\* groupby('date')['revenue'].sum().mean(), or data['revenue'].mean()
calculate_revenue_per_day(data) ==
    IF ~data.has_revenue THEN Whole(0)
    ELSE IF data.has_date
    THEN Num(calculate_revenue(data),
             Cardinality({data.rows[i].date : i \in 1..Len(data.rows)}))
    ELSE Mean(RevenueColumn(data))

calculate_efficiency_ratio(data) ==
    LET revenue == calculate_revenue(data)
        cogs == calculate_cogs(data)
    IN  IF cogs > 0 THEN Num(revenue, cogs) ELSE Whole(0)

\* 'increasing' if slope > 0 else 'decreasing'; NaN > 0 is False
TrendLabel(slope) == IF Lt(Whole(0), slope) THEN "increasing" ELSE "decreasing"

\* data['revenue'].values handed to np.polyfit: one NaN among the values makes
\* the fitted coefficients NaN.
RevenueSlope(data) ==
    IF HasNa(data.rows, "revenue") THEN NaN ELSE PolyfitSlope(RevenueColumn(data))

\* [calculate_profit(data.iloc[i:i+1]) for i in range(len(data))]: each row's
\* revenue - cogs, a NaN cell summing to 0
ProfitColumn(data) ==
    [i \in 1..Len(data.rows) |-> calculate_profit([data EXCEPT !.rows = <<data.rows[i]>>])]

\* The trends dict, as the sequence of its (key, value) pairs in insertion order.
calculate_trends(data) ==
    LET n == Len(data.rows)
        revenue_trend == RevenueSlope(data)
        profit_trend == PolyfitSlope(ProfitColumn(data))
    IN  (IF data.has_revenue /\ n >= 3
         THEN << <<"revenue_trend", Label(TrendLabel(revenue_trend))>>,
                 <<"revenue_change", revenue_trend>> >>
         ELSE <<>>)
        \o
        (IF data.has_profit /\ n >= 3
         THEN << <<"profit_trend", Label(TrendLabel(profit_trend))>>,
                 <<"profit_change", profit_trend>> >>
         ELSE <<>>)

\* rolling(window).mean().iloc[-1]: the mean of the last `window` rows, NaN
\* when one of them is NaN.  rows is the frame's rows and cols the columns
\* whose difference (first minus the rest) makes the series.
RollingMeanLast(rows, cols, window) ==
    LET w == SeriesTail(rows, window)
        v == [i \in 1..Len(w) |->
                w[i][cols[1]] - (IF Len(cols) > 1 THEN w[i][cols[2]] ELSE 0)]
    IN  IF \E i \in 1..Len(cols) : HasNa(w, cols[i]) THEN NaN ELSE Mean(v)

\* Frames of seven or more rows carry a revenue column here.
RECURSIVE calculate_moving_averages(_, _)
calculate_moving_averages(data, windows) ==
    IF windows = <<>> THEN <<>>
    ELSE LET window == Head(windows)
             name == CASE window = 7 -> "7" [] window = 14 -> "14" [] OTHER -> "30"
         IN  (IF Len(data.rows) >= window
              THEN (IF data.has_revenue
                    THEN << <<"revenue_ma_" \o name,
                              RollingMeanLast(data.rows, <<"revenue">>, window)>> >>
                    ELSE <<>>)
                   \o (IF data.has_profit
                       THEN << <<"profit_ma_" \o name,
                                 RollingMeanLast(data.rows,
                                     IF data.has_cogs THEN <<"revenue", "cogs">>
                                     ELSE <<"revenue">>, window)>> >>
                       ELSE <<>>)
              ELSE <<>>)
             \o calculate_moving_averages(data, Tail(windows))

\* Series.max() / Series.min(): a float of a float64 column (NaN when no cell
\* is left), a numpy.int64 of an int64 column.
Scalar(data, n) == IF data.dtype = "int64" THEN NumpyInt(n) ELSE Whole(n)
SeriesMax(data, s) == IF s = <<>> THEN NaN ELSE Scalar(data, SeqMax(s))
SeriesMin(data, s) == IF s = <<>> THEN NaN ELSE Scalar(data, SeqMin(s))

\* The metrics dict in insertion order.
calculate_performance_metrics(data) ==
    (IF data.has_revenue
     THEN << <<"revenue_volatility", Std(RevenueColumn(data))>>,
             <<"revenue_max", SeriesMax(data, RevenueColumn(data))>>,
             <<"revenue_min", SeriesMin(data, RevenueColumn(data))>>,
             <<"revenue_median", Median(RevenueColumn(data))>> >>
     ELSE <<>>)
    \o (IF data.has_cogs
        THEN << <<"cogs_volatility", Std(CogsColumn(data))>>,
                <<"avg_cogs", Mean(CogsColumn(data))>> >>
        ELSE <<>>)
    \o (IF Len(data.rows) >= 7 THEN calculate_moving_averages(data, <<7, 14, 30>>) ELSE <<>>)

\* isinstance(value, (int, float)) and not pd.isna(value), else 0.0
NanToZero(pairs) ==
    [i \in 1..Len(pairs) |->
        IF IsNumeric(pairs[i][2]) /\ pairs[i][2].kind # "nan"
        THEN pairs[i] ELSE <<pairs[i][1], Whole(0)>>]

\* The snapshot: the kpis dict as the sequence of its (key, value) pairs in
\* insertion order, which is the order check_thresholds walks it in.  The
\* seven basic KPIs and the trends go in as they are; only the performance
\* metrics pass the NaN filter.
calculate_kpis(data) ==
    IF data.rows = <<>> THEN <<>>
    ELSE << <<"revenue", Whole(calculate_revenue(data))>>,
            <<"cogs", Whole(calculate_cogs(data))>>,
            <<"profit", Whole(calculate_profit(data))>>,
            <<"profit_margin", calculate_profit_margin(data)>>,
            <<"growth_rate", calculate_growth_rate(data)>>,
            <<"revenue_per_day", calculate_revenue_per_day(data)>>,
            <<"efficiency_ratio", calculate_efficiency_ratio(data)>> >>
         \o calculate_trends(data)
         \o NanToZero(calculate_performance_metrics(data))

\* kpis.get(key, default) and key in kpis
Keys(pairs) == {pairs[i][1] : i \in 1..Len(pairs)}
Get(pairs, key, default) ==
    IF key \in Keys(pairs)
    THEN pairs[CHOOSE i \in 1..Len(pairs) : pairs[i][1] = key][2]
    ELSE default

\* --------------------------------------------------------- uploaded sheets
\* The DataFrame pd.read_excel returns: the column names in declaration order
\* and the rows, each the sequence of its cells in column order.  A cell holds
\* a whole number, a date, a text that is no number and no date, or nothing.
NumberCell(n) == [kind |-> "number", val |-> n]
DateCell(d) == [kind |-> "date", val |-> d]
TextCell == [kind |-> "text"]
BlankCell == [kind |-> "empty"]

\* pd.to_numeric(cell, errors='coerce'): NaN for what is no number
ToNumeric(cell) == IF cell.kind = "number" THEN cell ELSE BlankCell
\* pd.to_datetime(cell, errors='coerce'): NaT for what is no date; a number n
\* is n nanoseconds after the epoch, day 0
ToDatetime(cell) ==
    CASE cell.kind = "date" -> cell
      [] cell.kind = "number" -> DateCell(0)
      [] OTHER -> BlankCell

\* name in df.columns, and the place of the column of that name
HasColumn(df, name) == \E i \in 1..Len(df.columns) : df.columns[i] = name
ColumnAt(df, name) == CHOOSE i \in 1..Len(df.columns) : df.columns[i] = name
\* df.empty: no rows or no columns
IsEmpty(df) == df.rows = <<>> \/ df.columns = <<>>

\* ----------------------------------------------------------- LLMDataExtractor
FallbackDateWords == <<w_date, w_time, w_period>>
FallbackRevenueWords == <<w_revenue, w_sales, w_income>>
FallbackCogsWords == <<w_cogs, w_cost, w_expense>>

\* The loop of _fallback_analysis from column i on: every column is looked at,
\* and each one that matches is assigned to its variable.
RECURSIVE FallbackScan(_, _, _)
FallbackScan(columns, i, found) ==
    IF i > Len(columns) THEN found
    ELSE LET col == columns[i]
             col_lower == Lower(col)
         IN  FallbackScan(columns, i + 1,
                IF AnyIn(FallbackDateWords, col_lower)
                THEN [found EXCEPT !.date_col = Some(col)]
                ELSE IF AnyIn(FallbackRevenueWords, col_lower)
                THEN [found EXCEPT !.revenue_col = Some(col)]
                ELSE IF AnyIn(FallbackCogsWords, col_lower)
                THEN [found EXCEPT !.cogs_col = Some(col)]
                ELSE found)

\* The analysis dict.  column_mappings is a dict, as the sequence of its
\* (standard_name, actual_column) pairs in insertion order; an actual_column
\* is None or Some(name).
Analysis(column_mappings, confidence_score) ==
    [shape |-> "dict", column_mappings |-> column_mappings,
     confidence_score |-> confidence_score]

fallback_analysis(df) ==
    LET found == FallbackScan(df.columns, 1,
                    [date_col |-> None, revenue_col |-> None, cogs_col |-> None])
    IN  Analysis(Some(<< <<"date", found.date_col>>,
                         <<"revenue", found.revenue_col>>,
                         <<"cogs", found.cogs_col>>,
                         <<"profit", None>>,
                         <<"units_sold", None>>,
                         <<"customers", None>> >>),
                 Num(1, 2))

\* What one call of the advisor does: the request raises (an error, a
\* timeout), the content is empty, the content is no JSON, or json.loads
\* returns a value.
Raises == [kind |-> "raises"]
EmptyContent == [kind |-> "empty"]
InvalidJson == [kind |-> "invalid_json"]
Json(value) == [kind |-> "json", value |-> value]

\* analyze_excel_structure: enabled is whether the API key is configured,
\* reply what the advisor does when it is asked.
analyze_excel_structure(df, enabled, reply) ==
    IF ~enabled THEN fallback_analysis(df)
    ELSE IF reply.kind = "json" THEN reply.value
    ELSE fallback_analysis(df)

\* _find_date_column and _find_revenue_column: the first column that matches
FirstColumn(df, words) ==
    IF \E i \in 1..Len(df.columns) : AnyIn(words, Lower(df.columns[i]))
    THEN Some(df.columns[CHOOSE i \in 1..Len(df.columns) :
                /\ AnyIn(words, Lower(df.columns[i]))
                /\ \A j \in 1..(i - 1) : ~AnyIn(words, Lower(df.columns[j]))])
    ELSE None
find_date_column(df) == FirstColumn(df, <<w_date, w_time, w_period>>)
find_revenue_column(df) == FirstColumn(df, <<w_revenue, w_sales, w_income>>)

\* standardized_df as the function from its column names to the places of the
\* columns of df they are copied from.
\* The loop over column_mappings.items() from pair i on.
RECURSIVE MapColumns(_, _, _, _)
MapColumns(df, column_mappings, i, std) ==
    IF i > Len(column_mappings) THEN std
    ELSE LET standard_name == column_mappings[i][1]
             actual_column == column_mappings[i][2]
         IN  MapColumns(df, column_mappings, i + 1,
                IF ~actual_column.none /\ actual_column.val # <<>>
                   /\ HasColumn(df, actual_column.val)
                THEN [n \in DOMAIN std \cup {standard_name} |->
                        IF n = standard_name THEN ColumnAt(df, actual_column.val)
                        ELSE std[n]]
                ELSE std)

\* The columns of standardized_df before cleaning.
StandardColumns(df, column_mappings) ==
    LET mapped == MapColumns(df, column_mappings, 1, <<>>)
        date_column == find_date_column(df)
        with_date ==
            IF "date" \notin DOMAIN mapped /\ ~date_column.none
            THEN [n \in DOMAIN mapped \cup {"date"} |->
                    IF n = "date" THEN ColumnAt(df, date_column.val) ELSE mapped[n]]
            ELSE mapped
        revenue_column == find_revenue_column(df)
    IN  IF "revenue" \notin DOMAIN with_date /\ ~revenue_column.none
        THEN [n \in DOMAIN with_date \cup {"revenue"} |->
                IF n = "revenue" THEN ColumnAt(df, revenue_column.val) ELSE with_date[n]]
        ELSE with_date

\* The places of the rows of df whose cell in column c is a date, in order:
\* pd.to_datetime followed by dropna(subset=[date]).
RECURSIVE WithValidDate(_, _, _)
WithValidDate(df, c, i) ==
    IF i > Len(df.rows) THEN <<>>
    ELSE (IF ToDatetime(df.rows[i][c]).kind = "date" THEN <<i>> ELSE <<>>)
         \o WithValidDate(df, c, i + 1)

\* sort_values on column c of the rows at `places`, which all have a date
\* there: by insertion, equal dates keeping their order.
RECURSIVE SortByDate(_, _, _)
SortByDate(df, c, places) ==
    IF places = <<>> THEN <<>>
    ELSE LET n == Len(places)
             key(p) == ToDatetime(df.rows[p][c]).val
             sorted == SortByDate(df, c, SubSeq(places, 1, n - 1))
             before == SelectSeq(sorted, LAMBDA p : key(p) <= key(places[n]))
             after == SelectSeq(sorted, LAMBDA p : key(p) > key(places[n]))
         IN  before \o <<places[n]>> \o after

\* The dataset made of the rows of df at the places `kept`, in that order, its
\* date, revenue, cogs and profit columns being the columns of df at the
\* places std gives; the cells go through pd.to_datetime and pd.to_numeric.
Dataset(df, std, kept, dtype) ==
    LET cell(i, n) == ToNumeric(df.rows[i][std[n]])
        value(i, n) ==
            IF n \in DOMAIN std /\ cell(i, n).kind = "number" THEN cell(i, n).val ELSE 0
        row(i) ==
            [date |-> IF "date" \in DOMAIN std
                      THEN ToDatetime(df.rows[i][std["date"]]).val ELSE 0,
             revenue |-> value(i, "revenue"),
             cogs |-> value(i, "cogs"),
             na |-> {n \in {"revenue", "cogs"} \cap DOMAIN std : cell(i, n).kind = "empty"}]
    IN  [has_date |-> "date" \in DOMAIN std,
         has_revenue |-> "revenue" \in DOMAIN std,
         has_cogs |-> "cogs" \in DOMAIN std,
         has_profit |-> "profit" \in DOMAIN std,
         dtype |-> dtype,
         rows |-> [k \in 1..Len(kept) |-> row(kept[k])]]

\* The dtype pd.to_numeric leaves a column with: int64 when every cell is a
\* whole number, float64 when a cell is NaN.
DtypeOf(df, c, places) ==
    IF \A k \in 1..Len(places) : df.rows[places[k]][c].kind = "number"
    THEN "int64" ELSE "float64"
AllPlaces(df) == [i \in 1..Len(df.rows) |-> i]

\* _clean_extracted_data: dates and numbers coerced, the rows with an invalid
\* date removed, the rest sorted by date.  No columns: an empty frame.
clean_extracted_data(df, std) ==
    IF DOMAIN std = {} THEN Frame(<<>>)
    ELSE Dataset(df, std,
            IF "date" \in DOMAIN std
            THEN SortByDate(df, std["date"], WithValidDate(df, std["date"], 1))
            ELSE AllPlaces(df),
            IF "revenue" \in DOMAIN std
            THEN DtypeOf(df, std["revenue"], AllPlaces(df)) ELSE "float64")

\* extract_business_data on the analysis its own call of
\* analyze_excel_structure returned: [raised |-> TRUE] when analysis has no
\* get() (it is no dict) or column_mappings has no items() (it is null).
Absent == [absent |-> TRUE]
JsonList == [shape |-> "list"]
extract_business_data(df, analysis) ==
    IF analysis.shape # "dict" THEN [raised |-> TRUE]
    ELSE LET column_mappings ==
                 IF analysis.column_mappings = Absent THEN Some(<<>>)
                 ELSE analysis.column_mappings
         IN  IF column_mappings.none THEN [raised |-> TRUE]
             ELSE [raised |-> FALSE,
                   df |-> clean_extracted_data(df,
                             StandardColumns(df, column_mappings.val))]

\* ------------------------------------------------------------- DataProcessor
CleanDateColumns == <<w_date, w_datetime, w_timestamp, w_time>>
CleanNumericWords ==
    <<w_revenue, w_cogs, w_cost_of_goods_sold, w_sales, w_profit, w_expenses>>
ValidateRevenueWords == <<w_revenue, w_sales, w_total_sales, w_income>>
ValidateCogsWords == <<w_cogs, w_cost_of_goods_sold, w_cost_of_sales, w_costs>>

\* clean_data: the names lower-cased with '_' for ' '; the first name of
\* date_columns that is a column becomes the date column, whose rows with an
\* invalid date go and the rest are sorted by; the columns whose name holds a
\* numeric keyword are coerced; the rows left with no cell at all go.
\* The result keeps the places of the rows it retains.
clean_data(df) ==
    LET columns == [i \in 1..Len(df.columns) |-> Replace(Lower(df.columns[i]), " ", "_")]
        named == [df EXCEPT !.columns = columns]
        has_date_col == \E k \in 1..Len(CleanDateColumns) : HasColumn(named, CleanDateColumns[k])
        date_col == CleanDateColumns[CHOOSE k \in 1..Len(CleanDateColumns) :
                       /\ HasColumn(named, CleanDateColumns[k])
                       /\ \A j \in 1..(k - 1) : ~HasColumn(named, CleanDateColumns[j])]
        dated == IF has_date_col
                 THEN SortByDate(df, ColumnAt(named, date_col),
                                 WithValidDate(df, ColumnAt(named, date_col), 1))
                 ELSE AllPlaces(df)
        cleaned(p, c) ==
            IF has_date_col /\ c = ColumnAt(named, date_col) THEN ToDatetime(df.rows[p][c])
            ELSE IF AnyIn(CleanNumericWords, Lower(columns[c])) THEN ToNumeric(df.rows[p][c])
            ELSE df.rows[p][c]
        kept == SelectSeq(dated,
                    LAMBDA p : \E c \in 1..Len(columns) : cleaned(p, c).kind # "empty")
    IN  [columns |-> columns,
         rows |-> [p \in 1..Len(df.rows) |-> [c \in 1..Len(columns) |-> cleaned(p, c)]],
         kept |-> kept,
         coerced |-> dated]

\* The loops of validate_data: for each required column the first column
\* whose name holds one of its keywords.
found_columns(df) ==
    LET revenue == FirstColumn(df, ValidateRevenueWords)
        cogs == FirstColumn(df, ValidateCogsWords)
    IN  [revenue |-> revenue, cogs |-> cogs]

\* validate_data: True when both were found, and then
\* df.rename(columns=found_columns) has run: the column named 'revenue' takes
\* the name found for revenue, the column named 'cogs' the name found for cogs.
validate_data(df) ==
    LET found == found_columns(df)
        valid == ~found.revenue.none /\ ~found.cogs.none
        renamed(name) ==
            IF name = w_revenue THEN found.revenue.val
            ELSE IF name = w_cogs THEN found.cogs.val
            ELSE name
    IN  [valid |-> valid,
         df |-> IF valid
                THEN [df EXCEPT !.columns = [i \in 1..Len(df.columns) |-> renamed(df.columns[i])]]
                ELSE df]

\* The frame the KPI calculator and the store see in a cleaned df: its
\* columns named date, revenue, cogs and profit.
CanonicalColumns(df) ==
    LET names == [n \in {"date", "revenue", "cogs", "profit"} |->
                    CASE n = "date" -> w_date [] n = "revenue" -> w_revenue
                      [] n = "cogs" -> w_cogs [] OTHER -> w_profit]
        present == {n \in DOMAIN names : HasColumn(df, names[n])}
    IN  [n \in present |-> ColumnAt(df, names[n])]

\* fallback_processing: the cleaned df when validate_data accepts it, else None.
fallback_processing(df) ==
    LET cleaned == clean_data(df)
        checked == validate_data(cleaned)
        std == CanonicalColumns(checked.df)
    IN  IF checked.valid
        THEN Some(Dataset(checked.df, std, cleaned.kept,
                    IF "revenue" \in DOMAIN std
                       /\ \A i \in 1..Len(df.rows) : df.rows[i][std["revenue"]].kind # "empty"
                    THEN DtypeOf(df, std["revenue"], cleaned.coerced) ELSE "float64"))
        ELSE None

\* The advisor as load_excel meets it: whether it is configured, and what it
\* does at the call from load_excel and at the call from extract_business_data.
Advisor(enabled, first, second) == [enabled |-> enabled, first |-> first, second |-> second]
Unconfigured == Advisor(FALSE, Raises, Raises)

\* load_excel on the DataFrame read from the file: the dataset, or None when
\* the file is refused or anything raised.
load_excel(df, advisor) ==
    IF IsEmpty(df) THEN fallback_processing(df)
    ELSE LET analysis == analyze_excel_structure(df, advisor.enabled, advisor.first)
             extracted == extract_business_data(df,
                             analyze_excel_structure(df, advisor.enabled, advisor.second))
         IN  IF extracted.raised THEN None
             ELSE IF analysis.shape # "dict" THEN None
             ELSE IF extracted.df.rows # <<>> THEN Some(extracted.df)
             ELSE fallback_processing(df)

\* -------------------------------------------------------------------- state
VARIABLES
    now,          \* the clock: CURRENT_TIMESTAMP, datetime('now'), time.time()
    kpi_data,     \* table kpi_data: its rows in rowid order
    thresholds,   \* table thresholds: its rows, kpi_name UNIQUE
    alerts,       \* table alerts: its rows in rowid order
    sent,         \* the messages handed to AlertManager.send_alert, in order
    session,      \* st.session_state: current_data, last_update
    band,         \* a (current, threshold) pair and the bands computed for it
    last,         \* the operation that ran last, its arguments and its result
    alert_manager, \* AlertManager: the tokens and addresses of its two channels
    files,        \* the files of the watched directory: exists, mtime
    handler,      \* the ExcelFileHandler scheduled last: last_modified, callbacks
    monitor,      \* FileMonitor: observer, monitoring, and the observers created
    checker,      \* PeriodicChecker: running, thread
    threads       \* the position of every thread in the code it executes, the
                  \* script of app.py with its upload widget among them

vars == <<now, kpi_data, thresholds, alerts, sent, session, band, last,
          alert_manager, files, handler, monitor, checker, threads>>

\* The objects of alert_manager.py and file_monitor.py and the threads.
components == <<alert_manager, files, handler, monitor, checker, threads>>

\* ----------------------------------------------------------------- Database
\* datetime('now', '-{} days') and datetime('now', '-{} hours') at clock t
DaysAgo(t, days) == t - days * TicksPerDay
HoursAgo(t, hours) == t - (hours * TicksPerDay) \div 24
\* datetime.now().date()
Today(t) == t \div TicksPerDay

Reverse(s) == [i \in 1..Len(s) |-> s[Len(s) + 1 - i]]

\* float(row.get(col, 0)): the cell, NaN when it is empty, 0 when the frame has
\* no such column
RowGet(data, row, col) ==
    IF ~(IF col = "revenue" THEN data.has_revenue ELSE data.has_cogs) THEN Whole(0)
    ELSE IF col \in row.na THEN NaN ELSE Whole(row[col])

\* Mutant: each entry carries its own row's profit, not the snapshot's.
HistoryEntry_row_profit(data, row, kpis, t) ==
    [timestamp |-> t,
     date |-> IF data.has_date THEN row.date ELSE Today(t),
     revenue |-> Whole(row.revenue),
     cogs |-> Whole(row.cogs),
     profit |-> Whole(row.revenue - row.cogs),
     profit_margin |-> Get(kpis, "profit_margin", Whole(0)),
     growth_rate |-> Get(kpis, "growth_rate", Whole(0)),
     raw_data |-> row]

\* The row store_data inserts for one row of the frame (the id column is the
\* row's place in the table).
HistoryEntry(data, row, kpis, t) ==
    [timestamp |-> t,
     date |-> IF data.has_date THEN row.date ELSE Today(t),
     revenue |-> RowGet(data, row, "revenue"),
     cogs |-> RowGet(data, row, "cogs"),
     profit |-> Get(kpis, "profit", Whole(0)),
     profit_margin |-> Get(kpis, "profit_margin", Whole(0)),
     growth_rate |-> Get(kpis, "growth_rate", Whole(0)),
     raw_data |-> row]

\* Mutant: the batch replaces the table instead of being appended to it.
commit_replacing(table, pending) == pending

\* conn.commit(): the rows inserted in the open transaction become the table's.
commit(table, pending) == table \o pending

\* Mutant: the pending rows stay in the table when the batch fails.
rollback_keeping(table, pending) == table \o pending

\* Mutant: the first row inserted in the open transaction stays.
rollback_keeping_first(table, pending) ==
    table \o SubSeq(pending, 1, IF pending = <<>> THEN 0 ELSE 1)

\* conn.rollback(): the rows inserted in the open transaction are dropped.
rollback(table, pending) == table

\* store_data(data, kpis) at clock t.  fail_at = 0: every INSERT succeeds;
\* fail_at = i > 0: the statement for row i raises, rows 1..i-1 are pending.
store_data(table, t, data, kpis, fail_at) ==
    LET n == IF fail_at = 0 THEN Len(data.rows) ELSE fail_at - 1
        pending == [i \in 1..n |-> HistoryEntry(data, data.rows[i], kpis, t)]
    IN  IF fail_at = 0 THEN commit(table, pending) ELSE rollback(table, pending)

get_historical_data(table, t, days) ==
    Reverse(SelectSeq(table, LAMBDA e : e.timestamp >= DaysAgo(t, days)))

get_thresholds(table) ==
    [k \in {r.kpi_name : r \in table} |->
        (CHOOSE r \in table : r.kpi_name = k).threshold_value]

\* Mutant: INSERT OR IGNORE, an existing row of the name is kept.
update_threshold_ignore(table, kpi_name, threshold_value) ==
    IF \E r \in table : r.kpi_name = kpi_name THEN table
    ELSE table \cup {[kpi_name |-> kpi_name, threshold_value |-> threshold_value]}

\* INSERT OR REPLACE: the row with this kpi_name, if any, is deleted first.
update_threshold(table, kpi_name, threshold_value) ==
    {r \in table : r.kpi_name # kpi_name}
        \cup {[kpi_name |-> kpi_name, threshold_value |-> threshold_value]}

log_alert(table, t, kpi_name, current_value, threshold_value, alert_type, message) ==
    Append(table, [kpi_name |-> kpi_name, current_value |-> current_value,
                   threshold_value |-> threshold_value, alert_type |-> alert_type,
                   message |-> message, sent_at |-> t, status |-> "sent"])

get_recent_alerts(table, t, hours) ==
    Reverse(SelectSeq(table, LAMBDA a : a.sent_at >= HoursAgo(t, hours)))

RECURSIVE RSum(_)
RSum(s) == IF s = <<>> THEN Whole(0) ELSE RAdd(Head(s), RSum(Tail(s)))

\* AVG(column) over the selected rows: NULL (None) when there are none.
Avg(s) == IF s = <<>> THEN None ELSE Some(RDiv(RSum(s), Whole(Len(s))))

get_kpi_summary(table, t, days) ==
    LET rows == SelectSeq(table, LAMBDA e : e.timestamp >= DaysAgo(t, days))
    IN  [avg_revenue |-> Avg([i \in 1..Len(rows) |-> rows[i].revenue]),
         avg_profit |-> Avg([i \in 1..Len(rows) |-> rows[i].profit]),
         avg_profit_margin |-> Avg([i \in 1..Len(rows) |-> rows[i].profit_margin]),
         avg_growth_rate |-> Avg([i \in 1..Len(rows) |-> rows[i].growth_rate]),
         data_points |-> Len(rows)]

\* Mutant: the boundary entry is deleted too (<= in place of <).
cleanup_kpi_data_inclusive(table, t, days) ==
    SelectSeq(table, LAMBDA e : ~(e.timestamp <= DaysAgo(t, days)))

\* DELETE FROM kpi_data WHERE timestamp < datetime('now', '-{} days')
cleanup_kpi_data(table, t, days) ==
    SelectSeq(table, LAMBDA e : ~(e.timestamp < DaysAgo(t, days)))

\* DELETE FROM alerts WHERE sent_at < datetime('now', '-{} days')
cleanup_alerts(table, t, days) ==
    SelectSeq(table, LAMBDA a : ~(a.sent_at < DaysAgo(t, days)))

\* SELECT * FROM {table_name}
export_data(table_name) ==
    CASE table_name = "kpi_data" -> kpi_data
      [] table_name = "alerts" -> alerts
      [] OTHER -> thresholds

\* ------------------------------------------------------------- AlertManager
\* __init__: no channel is configured.
NewAlertManager ==
    [whatsapp_token |-> "None", whatsapp_phone |-> "None",
     slack_token |-> "None", slack_channel |-> "None"]

\* Truth value of a token or an address: None and the empty string are false.
Truthy(x) == x \notin {"None", ""}

configure_whatsapp(am, token, phone) ==
    [am EXCEPT !.whatsapp_token = token, !.whatsapp_phone = phone]

configure_slack(am, token, channel) ==
    [am EXCEPT !.slack_token = token, !.slack_channel = channel]

\* What requests.post does for a channel: the answer that means delivered, a
\* failure answer, or an exception (response.json() raising included).
WhatsappResponses == {"200", "400", "raised"}
SlackResponses == {"ok", "error", "raised"}

\* send_whatsapp_message: True for status 200; a failure answer and an
\* exception, which the handler catches, give False.
send_whatsapp_message(response) == response = "200"

\* send_slack_message: True when the answer has "ok"; else False.
send_slack_message(response) == response = "ok"

whatsapp_configured(am) == Truthy(am.whatsapp_token) /\ Truthy(am.whatsapp_phone)
slack_configured(am) == Truthy(am.slack_token) /\ Truthy(am.slack_channel)

\* Mutant: success = success or self.send_slack_message(message), which does
\* not try Slack once WhatsApp has delivered.
send_alert_short_circuit(am, message, responses) ==
    LET first == whatsapp_configured(am) /\ send_whatsapp_message(responses.whatsapp)
        second == slack_configured(am) /\ ~first
    IN  [message |-> message,
         attempts |->
            (IF whatsapp_configured(am)
             THEN <<[channel |-> "whatsapp", response |-> responses.whatsapp]>>
             ELSE <<>>)
            \o (IF second
                THEN <<[channel |-> "slack", response |-> responses.slack]>>
                ELSE <<>>),
         success |-> first \/ (second /\ send_slack_message(responses.slack))]

\* send_alert(message), the channels answering with `responses`: the attempts
\* made, in order, and the value returned.
send_alert(am, message, responses) ==
    LET success0 == FALSE
        success1 == IF whatsapp_configured(am)
                    THEN send_whatsapp_message(responses.whatsapp) \/ success0
                    ELSE success0
        success2 == IF slack_configured(am)
                    THEN send_slack_message(responses.slack) \/ success1
                    ELSE success1
    IN  [message |-> message,
         attempts |->
            (IF whatsapp_configured(am)
             THEN <<[channel |-> "whatsapp", response |-> responses.whatsapp]>>
             ELSE <<>>)
            \o (IF slack_configured(am)
                THEN <<[channel |-> "slack", response |-> responses.slack]>>
                ELSE <<>>),
         success |-> success2]

\* The answers the channels of am can give to one message.
ChannelResponses(am) ==
    {[whatsapp |-> w, slack |-> s] :
        w \in IF whatsapp_configured(am) THEN WhatsappResponses ELSE {"unused"},
        s \in IF slack_configured(am) THEN SlackResponses ELSE {"unused"}}

\* ------------------------------------------------------------- file_monitor
\* The paths of the directory that is watched: the file and another one.
WatchedPath == "temp_data.xlsx"
OtherPath == "temp_other.xlsx"
Paths == {WatchedPath, OtherPath}

\* No file at any path.
NoFiles == [p \in Paths |-> [exists |-> FALSE, mtime |-> 0, content |-> 0]]

\* os.path.getmtime(path)
getmtime(fs, path) == fs[path].mtime

\* ExcelFileHandler.__init__(file_path, callback); callbacks counts the calls
\* of the callback, observer is the observer the handler is scheduled on.
ExcelFileHandler(fs, file_path, observer) ==
    [file_path |-> file_path,
     last_modified |-> IF fs[file_path].exists THEN getmtime(fs, file_path) ELSE 0,
     callbacks |-> 0, observer |-> observer]

\* A file system event: event.is_directory, event.src_path.
Events == [is_directory : BOOLEAN, src_path : Paths]

\* Mutant: the comparison admits an unchanged modification time.
on_modified_or_equal(h, event, fs) ==
    IF event.is_directory THEN [handler |-> h, called |-> FALSE, raised |-> FALSE]
    ELSE IF event.src_path # h.file_path
    THEN [handler |-> h, called |-> FALSE, raised |-> FALSE]
    ELSE IF ~fs[h.file_path].exists
    THEN [handler |-> h, called |-> FALSE, raised |-> TRUE]
    ELSE IF getmtime(fs, h.file_path) >= h.last_modified
    THEN [handler |-> [h EXCEPT !.last_modified = getmtime(fs, h.file_path),
                                !.callbacks = @ + 1],
          called |-> TRUE, raised |-> FALSE]
    ELSE [handler |-> h, called |-> FALSE, raised |-> FALSE]

\* ExcelFileHandler.on_modified(event) up to the call of the callback: the
\* handler after it, whether the callback is called, and whether getmtime
\* raised (the file is gone).
on_modified(h, event, fs) ==
    IF event.is_directory THEN [handler |-> h, called |-> FALSE, raised |-> FALSE]
    ELSE IF event.src_path # h.file_path
    THEN [handler |-> h, called |-> FALSE, raised |-> FALSE]
    ELSE IF ~fs[h.file_path].exists
    THEN [handler |-> h, called |-> FALSE, raised |-> TRUE]
    ELSE IF getmtime(fs, h.file_path) > h.last_modified
    THEN [handler |-> [h EXCEPT !.last_modified = getmtime(fs, h.file_path),
                                !.callbacks = @ + 1],
          called |-> TRUE, raised |-> FALSE]
    ELSE [handler |-> h, called |-> FALSE, raised |-> FALSE]

\* FileMonitor.__init__: observer None (0), and the observers created so far,
\* each "new", "running" or "stopped".
NewFileMonitor == [observer |-> 0, monitoring |-> FALSE, observers |-> <<>>]

\* Mutant: the observer that runs is left running.
stop_monitoring_not(m) == m

\* FileMonitor.stop_monitoring(): observer.stop(), observer.join().
stop_monitoring(m) ==
    IF m.observer # 0 /\ m.monitoring
    THEN [m EXCEPT !.observers[m.observer] = "stopped", !.monitoring = FALSE]
    ELSE m

\* What Observer.schedule and Observer.start can do.
ObserverOutcomes == {"started", "schedule_raised", "start_raised"}

\* FileMonitor.start_monitoring(file_path, callback): the monitor after it and
\* the value returned.  The handler is made between stop_monitoring() and
\* Observer(); an exception of schedule or start is caught.
start_monitoring(m, fs, file_path, outcome) ==
    IF ~fs[file_path].exists THEN [monitor |-> m, result |-> FALSE, created |-> FALSE]
    ELSE LET stopped == stop_monitoring(m)
             id == Len(stopped.observers) + 1
             made == [stopped EXCEPT !.observer = id,
                                     !.observers = Append(@, "new")]
         IN  IF outcome = "started"
             THEN [monitor |-> [made EXCEPT !.observers[id] = "running",
                                            !.monitoring = TRUE],
                   result |-> TRUE, created |-> TRUE]
             ELSE [monitor |-> made, result |-> FALSE, created |-> TRUE]

is_monitoring(m) == m.monitoring

\* PeriodicChecker.__init__: thread None (0).
NewPeriodicChecker == [running |-> FALSE, thread |-> 0]

\* The threads that call start() and stop() of the checker.
Callers == {"ui", "worker"}

\* Every caller outside a call, no checker thread made, the observer thread
\* outside the callback, and the script of app.py not running: no file in the
\* upload widget, uploaded_file_path None (app.py 31-32).
NoThreads ==
    [callers |-> [c \in Callers |-> [pc |-> "idle", thread |-> 0]],
     checkers |-> <<>>,
     observer |-> "idle",
     script |-> [pc |-> "idle", since |-> 0,
                 uploaded_file |-> None, uploaded_file_path |-> None]]

\* ------------------------------------------------------------------ banding
\* KPICalculator.get_kpi_status(kpi_name, current_value, threshold)
get_kpi_status(current_value, threshold) ==
    IF RLe(threshold, current_value) THEN "good"
    ELSE IF RLe(RMul(threshold, Num(9, 10)), current_value) THEN "warning"
    ELSE "critical"

\* display_dashboard: st.error / st.warning / st.success
display_dashboard_band(numeric_value, new_threshold) ==
    IF RLt(numeric_value, new_threshold) THEN "critical"
    ELSE IF RLt(numeric_value, RMul(new_threshold, Num(11, 10))) THEN "warning"
    ELSE "good"

\* create_comparison_chart: the colour of the bar, by the band whose colour of
\* color_scheme it is: success for good, warning for warning (danger, the
\* colour of critical, is not among the branches).
comparison_chart_band(numeric_value, threshold_value) ==
    IF RLe(threshold_value, numeric_value) THEN "good"
    ELSE IF RLe(RMul(threshold_value, Num(9, 10)), numeric_value) THEN "warning"
    ELSE "warning"

\* ------------------------------------------------------------------- app.py
\* The f-string of check_thresholds: the KPI's name, its value and the threshold.
AlertMessage(kpi_name, kpi_value, threshold) ==
    [kpi_name |-> kpi_name, current |-> kpi_value, threshold |-> threshold]

\* check_thresholds(kpis) from the i-th item of kpis on: the messages it sends,
\* in order, and whether it raised.  `kpi_value < threshold` raises TypeError
\* when kpi_value is a str, and the loop ends there.
RECURSIVE check_thresholds_from(_, _, _)
check_thresholds_from(kpis, limits, i) ==
    IF i > Len(kpis) THEN [messages |-> <<>>, raised |-> FALSE]
    ELSE LET kpi_name == kpis[i][1]
             kpi_value == kpis[i][2]
             rest == check_thresholds_from(kpis, limits, i + 1)
         IN  IF kpi_name \in DOMAIN limits
             THEN IF ~IsNumeric(kpi_value)
                  THEN [messages |-> <<>>, raised |-> TRUE]
                  ELSE IF Lt(kpi_value, limits[kpi_name])
                       THEN [messages |->
                                <<AlertMessage(kpi_name, kpi_value, limits[kpi_name])>>
                                    \o rest.messages,
                             raised |-> rest.raised]
                       ELSE rest
             ELSE rest

check_thresholds(kpis, table) == check_thresholds_from(kpis, get_thresholds(table), 1)

\* The calls of send_alert check_thresholds makes at clock t, appended to the
\* log: responses[i] is what the channels answer to the i-th message.
SendAll(log, t, am, messages, responses) ==
    log \o [i \in 1..Len(messages) |->
              [at |-> t] @@ send_alert(am, messages[i], responses[i])]

\* ------------------------------------------------------------------ inputs
\* Frames load_excel hands to the ingestion cycle: three rows with a rising
\* revenue, three dated rows (with a profit column) with a falling one, one row.
Rising == Frame(<<Row(1, 1), Row(2, 1), Row(3, 1)>>)
Falling == DatedFrame(<<DRow(0, 3, 1), DRow(0, 2, 1), DRow(1, 1, 2)>>)
Single == Frame(<<Row(2, 1)>>)
Empty == Frame(<<>>)

CycleFrames == {Rising, Falling}
\* load_excel returns None, an empty frame or a frame with rows.
LoadResults == {None, Some(Empty)} \cup {Some(d) : d \in CycleFrames}

StoreFrames == {Single, Frame(<<Row(1, 1), Row(3, 2)>>), Rising}

\* The (kpi_name, threshold_value) pairs Database.update_threshold is called
\* with (it takes any name): a KPI ahead of the trend label in the snapshot,
\* the label, and a KPI after it.
ThresholdInputs ==
    {<<"revenue", Whole(2)>>, <<"revenue", Whole(7)>>,
     <<"revenue_trend", Whole(7)>>, <<"revenue_max", Whole(7)>>}

\* -------------------------------------------------------------------- Init
\* st.session_state as the first run of app.py leaves it (lines 27-30).
NewSession == [current_data |-> None, last_update |-> None]

NoBand == [current |-> Whole(0), threshold |-> Whole(0),
           status |-> "none", dashboard |-> "none", chart |-> "none"]

\* The objects of alert_manager.py and file_monitor.py after construction.
InitComponents ==
    /\ alert_manager = NewAlertManager
    /\ files = NoFiles
    /\ handler = None
    /\ monitor = NewFileMonitor
    /\ checker = NewPeriodicChecker
    /\ threads = NoThreads

Init ==
    /\ now = 0
    /\ kpi_data = <<>>
    /\ thresholds = {}
    /\ alerts = <<>>
    /\ sent = <<>>
    /\ session = NewSession
    /\ InitComponents
    /\ band = NoBand
    /\ last = [op |-> "init"]

\* ----------------------------------------------------------------- actions
\* Time passes.
Tick ==
    /\ now < MaxTime
    /\ now' = now + 1
    /\ last' = [op |-> "tick"]
    /\ UNCHANGED <<kpi_data, thresholds, alerts, sent, session, band, components>>

UpdateThreshold(kpi_name, threshold_value) ==
    /\ thresholds' = update_threshold(thresholds, kpi_name, threshold_value)
    /\ last' = [op |-> "update_threshold", kpi_name |-> kpi_name,
                threshold_value |-> threshold_value,
                replaced |-> kpi_name \in DOMAIN get_thresholds(thresholds)]
    /\ UNCHANGED <<now, kpi_data, alerts, sent, session, band, components>>

\* process_uploaded_file(file_path): load_excel gives `loaded`; fail_at is
\* where store_data fails (0: it does not).
ProcessFile(file, loaded, fail_at) ==
    LET usable == ~loaded.none /\ loaded.val.rows # <<>>
        data == loaded.val
        kpis == calculate_kpis(data)
        checked == check_thresholds(kpis, thresholds)
        cycle(outcome, messages) ==
            [op |-> "process_uploaded_file", file |-> file,
             loaded |-> loaded, outcome |-> outcome,
             kpis |-> IF usable THEN kpis ELSE <<>>,
             limits |-> get_thresholds(thresholds), messages |-> messages]
    IN  /\ usable => /\ fail_at \in 0..Len(data.rows)
                     /\ Len(kpi_data) + Len(data.rows) <= MaxHistory
        /\ ~usable => fail_at = 0
        /\ IF ~usable
           THEN \* st.error("Could not process the Excel file ...")
                /\ last' = cycle("rejected", <<>>)
                /\ UNCHANGED <<kpi_data, sent, session>>
           ELSE IF fail_at # 0
           THEN \* store_data raised: caught by the handler, st.error
                /\ kpi_data' = store_data(kpi_data, now, data, kpis, fail_at)
                /\ last' = cycle("store_failed", <<>>)
                /\ UNCHANGED <<sent, session>>
           ELSE /\ kpi_data' = store_data(kpi_data, now, data, kpis, 0)
                /\ session' = [session EXCEPT !.current_data = Some(data),
                                               !.last_update = Some(now)]
                /\ \E responses \in [1..Len(checked.messages) ->
                                        ChannelResponses(alert_manager)] :
                      sent' = SendAll(sent, now, alert_manager, checked.messages,
                                      responses)
                /\ last' = cycle(IF checked.raised THEN "check_raised" ELSE "success",
                                 checked.messages)
        /\ UNCHANGED <<now, thresholds, alerts, band>>

\* process_uploaded_file when load_excel returns `loaded`.
ProcessUploadedFile(loaded, fail_at) ==
    /\ ProcessFile(None, loaded, fail_at)
    /\ UNCHANGED components

\* process_uploaded_file on a file that reads as the sheet df, load_excel
\* meeting the advisor.
UploadFile(df, advisor, fail_at) ==
    /\ Len(kpi_data) + Len(df.rows) <= MaxIngest
    /\ ProcessFile(Some([df |-> df, advisor |-> advisor]), load_excel(df, advisor), fail_at)
    /\ UNCHANGED components

\* Database.store_data(data, calculate_kpis(data)) called directly.
StoreData(data, fail_at) ==
    /\ fail_at \in 0..Len(data.rows)
    /\ Len(kpi_data) + Len(alerts) + Len(data.rows) <= MaxStore
    /\ kpi_data' = store_data(kpi_data, now, data, calculate_kpis(data), fail_at)
    /\ last' = [op |-> "store_data", data |-> data, kpis |-> calculate_kpis(data),
                fail_at |-> fail_at, raised |-> fail_at # 0]
    /\ UNCHANGED <<now, thresholds, alerts, sent, session, band, components>>

LogAlert(kpi_name, current_value, threshold_value) ==
    /\ Len(kpi_data) + Len(alerts) < MaxStore
    /\ alerts' = log_alert(alerts, now, kpi_name, current_value, threshold_value,
                           "threshold", AlertMessage(kpi_name, current_value, threshold_value))
    /\ last' = [op |-> "log_alert", kpi_name |-> kpi_name]
    /\ UNCHANGED <<now, kpi_data, thresholds, sent, session, band, components>>

CleanupOldData(days) ==
    /\ kpi_data' = cleanup_kpi_data(kpi_data, now, days)
    /\ alerts' = cleanup_alerts(alerts, now, days)
    /\ last' = [op |-> "cleanup_old_data", days |-> days,
                deleted |-> Len(kpi_data) - Len(cleanup_kpi_data(kpi_data, now, days))]
    /\ UNCHANGED <<now, thresholds, sent, session, band, components>>

GetHistoricalData(days) ==
    /\ last' = [op |-> "get_historical_data", days |-> days,
                result |-> get_historical_data(kpi_data, now, days)]
    /\ UNCHANGED <<now, kpi_data, thresholds, alerts, sent, session, band, components>>

GetKpiSummary(days) ==
    /\ last' = [op |-> "get_kpi_summary", days |-> days,
                result |-> get_kpi_summary(kpi_data, now, days)]
    /\ UNCHANGED <<now, kpi_data, thresholds, alerts, sent, session, band, components>>

GetRecentAlerts(hours) ==
    /\ last' = [op |-> "get_recent_alerts", hours |-> hours,
                result |-> get_recent_alerts(alerts, now, hours)]
    /\ UNCHANGED <<now, kpi_data, thresholds, alerts, sent, session, band, components>>

GetThresholds ==
    /\ last' = [op |-> "get_thresholds", result |-> get_thresholds(thresholds)]
    /\ UNCHANGED <<now, kpi_data, thresholds, alerts, sent, session, band, components>>

ExportData(table_name) ==
    /\ last' = [op |-> "export_data", table_name |-> table_name,
                result |-> export_data(table_name)]
    /\ UNCHANGED <<now, kpi_data, thresholds, alerts, sent, session, band, components>>

\* get_kpi_status on the pair held in band.
GetKpiStatus ==
    /\ band.status = "none"
    /\ band' = [band EXCEPT !.status = get_kpi_status(band.current, band.threshold)]
    /\ last' = [op |-> "get_kpi_status"]
    /\ UNCHANGED <<now, kpi_data, thresholds, alerts, sent, session, components>>

\* The dashboard's colour coding of the pair held in band.
DisplayBand ==
    /\ band.dashboard = "none"
    /\ band' = [band EXCEPT
                   !.dashboard = display_dashboard_band(band.current, band.threshold)]
    /\ last' = [op |-> "display_dashboard"]
    /\ UNCHANGED <<now, kpi_data, thresholds, alerts, sent, session, components>>

\* ---------------------------------------------------------- specifications
\* The application: ingestion cycles against the thresholds the dashboard sets.
Next ==
    \/ Tick
    \/ \E input \in ThresholdInputs : UpdateThreshold(input[1], input[2])
    \/ \E loaded \in LoadResults, fail_at \in 0..2 : ProcessUploadedFile(loaded, fail_at)

Spec == Init /\ [][Next]_vars

\* The Database API called in any order.
NextStore ==
    \/ Tick
    \/ \E data \in StoreFrames, fail_at \in 0..MaxStore : StoreData(data, fail_at)
    \/ UpdateThreshold("revenue", Whole(2))
    \/ LogAlert("revenue", Whole(1), Whole(2))
    \/ \E days \in 0..MaxDays : CleanupOldData(days)
    \/ \E days \in 0..MaxDays : GetHistoricalData(days)
    \/ \E days \in 0..MaxDays : GetKpiSummary(days)
    \/ GetRecentAlerts(DefaultHours)
    \/ GetThresholds
    \/ \E table_name \in {"kpi_data", "alerts"} : ExportData(table_name)

SpecStore == Init /\ [][NextStore]_vars

\* The banding functions on every pair of the bounded grid.
InitBand ==
    /\ now = 0
    /\ kpi_data = <<>>
    /\ thresholds = {}
    /\ alerts = <<>>
    /\ sent = <<>>
    /\ session = NewSession
    /\ InitComponents
    /\ \E c \in -MaxBand..MaxBand, t \in -MaxBand..MaxBand :
          band = [current |-> Whole(c), threshold |-> Whole(t),
                  status |-> "none", dashboard |-> "none", chart |-> "none"]
    /\ last = [op |-> "init"]

\* The comparison chart's colouring of the pair held in band.
ColourChart ==
    /\ band.chart = "none"
    /\ band' = [band EXCEPT
                   !.chart = comparison_chart_band(band.current, band.threshold)]
    /\ last' = [op |-> "create_comparison_chart"]
    /\ UNCHANGED <<now, kpi_data, thresholds, alerts, sent, session, components>>

NextBand == GetKpiStatus \/ DisplayBand \/ ColourChart

SpecBand == InitBand /\ [][NextBand]_vars

\* The KPI calculator on every dataset of the bounded family.
\* The cells a row is built from.
CellValues == {-1, 0, 2}
CleanRows == {Row(r, c) : r \in CellValues, c \in CellValues}
RowSeqs == UNION {[1..n -> CleanRows] : n \in 0..MaxRows}
\* Scenario A of the specification.
ScenarioA == Frame(<<Row(100, 60), Row(200, 90)>>)

\* rows with the dates 0, 0, 1, 1, ... of a frame sorted by date
WithDates(rows) == [i \in 1..Len(rows) |-> [rows[i] EXCEPT !.date = (i - 1) \div 2]]
\* rows with the cell of column col turned NaN in the rows whose index is in at
WithNa(rows, col, at) ==
    [i \in 1..Len(rows) |->
        IF i \in at THEN [rows[i] EXCEPT !.na = {col}, ![col] = 0] ELSE rows[i]]

\* What the normalizer can hand on for a sequence of rows: the plain frame, the
\* dated frame with a profit column, the frame of whole numbers, the frame
\* whose cogs did not resolve, and frames with an empty or non-numeric cell
\* (first revenue, every revenue, last cogs).
FramesOf(rows) ==
    {Frame(rows), DatedFrame(WithDates(rows)), IntFrame(rows),
     [Frame([i \in 1..Len(rows) |-> [rows[i] EXCEPT !.cogs = 0]])
         EXCEPT !.has_cogs = FALSE],
     Frame(WithNa(rows, "revenue", {1})),
     Frame(WithNa(rows, "revenue", 1..Len(rows))),
     Frame(WithNa(rows, "cogs", {Len(rows)}))}

\* the datasets of one sequence of rows, and Scenario A
KpiFrames(rows) == FramesOf(rows) \cup {ScenarioA}

InitKpi ==
    /\ now = 0
    /\ kpi_data = <<>>
    /\ thresholds = {}
    /\ alerts = <<>>
    /\ sent = <<>>
    /\ session = NewSession
    /\ InitComponents
    /\ band = NoBand
    /\ \E rows \in RowSeqs :
        \E data \in KpiFrames(rows) : last = [op |-> "dataset", data |-> data]

\* kpi_calculator.calculate_kpis(data) on the dataset held in last.
CalculateKpis ==
    /\ last.op = "dataset"
    /\ last' = [op |-> "calculate_kpis", data |-> last.data,
                kpis |-> calculate_kpis(last.data)]
    /\ UNCHANGED <<now, kpi_data, thresholds, alerts, sent, session, band, components>>

NextKpi == CalculateKpis

SpecKpi == InitKpi /\ [][NextKpi]_vars

\* The sheets: a list of column names and up to MaxSheetRows rows, each row
\* of one of the kinds below.
ColumnLists ==
    {<<TotalSales, CostOfSales>>, <<Revenue, Sales>>, <<Revenue, Notes>>,
     <<Date, Revenue, COGS>>, <<Period, Revenue, COGS>>, <<Revenue, COGS>>, <<Notes>>}
\* What the cells of a column hold.
Holds(name) ==
    IF name = Date THEN "date" ELSE IF name \in {Period, Notes} THEN "text" ELSE "number"
\* A kind of row: the cell of the first number column, of the other number
\* columns, of a date column and of a text column.
RowKind(first, rest, date, text) ==
    [first |-> first, rest |-> rest, date |-> date, text |-> text]
GoodRow == RowKind(NumberCell(3), NumberCell(1), DateCell(1), TextCell)
EarlyRow == RowKind(NumberCell(2), NumberCell(2), DateCell(0), TextCell)
NegativeRow == RowKind(NumberCell(-1), NumberCell(1), DateCell(1), TextCell)
TextRow == RowKind(TextCell, NumberCell(1), DateCell(1), TextCell)
NoCogsRow == RowKind(NumberCell(2), BlankCell, DateCell(1), TextCell)
BlankRow == RowKind(BlankCell, BlankCell, BlankCell, BlankCell)
BadDateRow == RowKind(NumberCell(2), NumberCell(1), TextCell, TextCell)
RowKinds == {GoodRow, EarlyRow, NegativeRow, TextRow, NoCogsRow, BlankRow, BadDateRow}

SheetRow(columns, kind) ==
    LET numbers == {c \in 1..Len(columns) : Holds(columns[c]) = "number"}
    IN  [c \in 1..Len(columns) |->
            CASE Holds(columns[c]) = "date" -> kind.date
              [] Holds(columns[c]) = "text" -> kind.text
              [] OTHER -> IF \A d \in numbers : c <= d THEN kind.first ELSE kind.rest]
Sheet(columns, kinds) ==
    [columns |-> columns, rows |-> [i \in 1..Len(kinds) |-> SheetRow(columns, kinds[i])]]
SheetsOf(lists, rowkinds, n) ==
    {Sheet(columns, kinds) :
        columns \in lists, kinds \in UNION {[1..k -> rowkinds] : k \in 0..n}}
Sheets == SheetsOf(ColumnLists, RowKinds, MaxSheetRows)

\* What the advisor may answer for a sheet: non-JSON shapes of failure, JSON of
\* the wrong shape (a list, an object whose column_mappings is null or is
\* missing), and mappings: every field null, revenue only, revenue and cogs,
\* and revenue mapped to a column the sheet does not have.
Mapping(date, revenue, cogs) ==
    Analysis(Some(<< <<"date", date>>, <<"revenue", revenue>>, <<"cogs", cogs>>,
                     <<"profit", None>>, <<"units_sold", None>>, <<"customers", None>> >>),
             Num(19, 20))
Replies(df) ==
    {Raises, EmptyContent, InvalidJson,
     Json(JsonList), Json(Analysis(None, Num(19, 20))), Json(Analysis(Absent, Num(19, 20))),
     Json(Mapping(None, None, None)),
     Json(Mapping(None, Some(df.columns[1]), None)),
     Json(Mapping(None, Some(df.columns[1]), Some(df.columns[Len(df.columns)]))),
     Json(Mapping(None, Some(w_revenue), None))}
\* The advisor answers its two calls alike, or fails at one of them only.
Advisors(df) ==
    {Unconfigured} \cup {Advisor(TRUE, r, r) : r \in Replies(df)}
    \cup {Advisor(TRUE, Raises, Json(JsonList)), Advisor(TRUE, Json(JsonList), Raises)}

InitLoad ==
    /\ now = 0
    /\ kpi_data = <<>>
    /\ thresholds = {}
    /\ alerts = <<>>
    /\ sent = <<>>
    /\ session = NewSession
    /\ InitComponents
    /\ band = NoBand
    /\ \E df \in Sheets : \E advisor \in Advisors(df) :
          last = [op |-> "read_excel", df |-> df, advisor |-> advisor]

Loaded(op, result) ==
    /\ last.op = "read_excel"
    /\ last' = [op |-> op, df |-> last.df, advisor |-> last.advisor, result |-> result]
    /\ UNCHANGED <<now, kpi_data, thresholds, alerts, sent, session, band, components>>

\* llm_extractor.analyze_excel_structure(df)
AnalyzeExcelStructure ==
    /\ last.op = "read_excel"
    /\ Loaded("analyze_excel_structure",
              analyze_excel_structure(last.df, last.advisor.enabled, last.advisor.first))

\* llm_extractor._find_date_column(df) and _find_revenue_column(df)
FindColumns ==
    /\ ~last.advisor.enabled
    /\ Loaded("find_columns",
              [date |-> find_date_column(last.df), revenue |-> find_revenue_column(last.df)])

\* The columns validate_data finds in clean_data(df)
ValidateData ==
    /\ ~last.advisor.enabled
    /\ Loaded("validate_data", found_columns(clean_data(last.df)))

\* data_processor.fallback_processing(df)
FallbackProcessing ==
    /\ ~last.advisor.enabled
    /\ Loaded("fallback_processing", fallback_processing(last.df))

\* data_processor.load_excel(file_path), the file reading as df
LoadExcel ==
    /\ last.op = "read_excel"
    /\ Loaded("load_excel", load_excel(last.df, last.advisor))

NextLoad ==
    \/ AnalyzeExcelStructure
    \/ FindColumns
    \/ ValidateData
    \/ FallbackProcessing
    \/ LoadExcel

SpecLoad == InitLoad /\ [][NextLoad]_vars

\* Uploads of sheets against a revenue threshold.
IngestSheets ==
    {Sheet(<<Revenue, COGS>>, <<GoodRow>>), Sheet(<<Revenue, Notes>>, <<GoodRow>>),
     Sheet(<<TotalSales, CostOfSales>>, <<GoodRow, TextRow>>), Sheet(<<Notes>>, <<GoodRow>>)}
IngestAdvisors(df) ==
    {Unconfigured, Advisor(TRUE, Json(JsonList), Json(JsonList)),
     Advisor(TRUE, Json(Mapping(None, Some(df.columns[1]), None)),
                   Json(Mapping(None, Some(df.columns[1]), None)))}

NextIngest ==
    \/ UpdateThreshold("revenue", Whole(7))
    \/ \E df \in IngestSheets : \E advisor \in IngestAdvisors(df) : \E fail_at \in 0..1 :
          UploadFile(df, advisor, fail_at)

SpecIngest == Init /\ [][NextIngest]_vars

\* The application's own variables, for the actions of the other objects.
application == <<now, kpi_data, thresholds, alerts, sent, session, band>>

\* The alerting: check_thresholds against channels that answer as they like.
ConfigureWhatsapp(token, phone) ==
    /\ alert_manager' = configure_whatsapp(alert_manager, token, phone)
    /\ last' = [op |-> "configure_whatsapp"]
    /\ UNCHANGED <<application, files, handler, monitor, checker, threads>>

ConfigureSlack(token, channel) ==
    /\ alert_manager' = configure_slack(alert_manager, token, channel)
    /\ last' = [op |-> "configure_slack"]
    /\ UNCHANGED <<application, files, handler, monitor, checker, threads>>

\* check_thresholds(kpis)
CheckThresholds(kpis) ==
    LET checked == check_thresholds(kpis, thresholds)
    IN  /\ Len(sent) + Len(checked.messages) <= MaxSent
        /\ \E responses \in [1..Len(checked.messages) ->
                                ChannelResponses(alert_manager)] :
              sent' = SendAll(sent, now, alert_manager, checked.messages, responses)
        /\ last' = [op |-> "check_thresholds", kpis |-> kpis,
                    limits |-> get_thresholds(thresholds),
                    messages |-> checked.messages, raised |-> checked.raised]
        /\ UNCHANGED <<now, kpi_data, thresholds, alerts, session, band, components>>

\* The snapshot of the rising rows: revenue 6, revenue_trend 'increasing',
\* revenue_max 3.
Snapshots == {calculate_kpis(Rising)}
\* Thresholds above two of its values.
AlertThresholds == {<<"revenue", Whole(7)>>, <<"revenue_max", Whole(7)>>}

NextAlert ==
    \* the text inputs of the sidebar: empty, or filled in
    \/ \E token \in {"", "token"} :
          ConfigureWhatsapp(token, IF token = "" THEN "" ELSE "phone")
    \/ \E token \in {"", "token"} : ConfigureSlack(token, "#alerts")
    \/ \E input \in AlertThresholds : UpdateThreshold(input[1], input[2])
    \/ \E kpis \in Snapshots : CheckThresholds(kpis)

SpecAlert == Init /\ [][NextAlert]_vars

\* The file monitor: the watched directory changes, the monitor is started and
\* stopped, and the observer thread hands events to the handler.
\* A file is written, with the modification time the file system gives it.
Touch(path, mtime) ==
    /\ files' = [files EXCEPT ![path].exists = TRUE, ![path].mtime = mtime]
    /\ last' = [op |-> "touch", path |-> path]
    /\ UNCHANGED <<application, alert_manager, handler, monitor, checker, threads>>

\* A file is removed.
RemoveFile(path) ==
    /\ files[path].exists
    /\ files' = [files EXCEPT ![path] = [exists |-> FALSE, mtime |-> 0, content |-> 0]]
    /\ last' = [op |-> "remove", path |-> path]
    /\ UNCHANGED <<application, alert_manager, handler, monitor, checker, threads>>

\* start_monitoring(file_path, callback); observer.join() in stop_monitoring
\* returns once the observer thread is out of the callback.
StartMonitoring(file_path, outcome) ==
    LET started == start_monitoring(monitor, files, file_path, outcome)
    IN  /\ Len(monitor.observers) < MaxObservers
        /\ monitor.monitoring => threads.observer = "idle"
        /\ monitor' = started.monitor
        /\ handler' = IF started.created
                      THEN Some(ExcelFileHandler(files, file_path, started.monitor.observer))
                      ELSE handler
        /\ last' = [op |-> "start_monitoring", file_path |-> file_path,
                    exists |-> files[file_path].exists, result |-> started.result]
        /\ UNCHANGED <<application, alert_manager, files, checker, threads>>

StopMonitoring ==
    /\ monitor.monitoring => threads.observer = "idle"
    /\ monitor' = stop_monitoring(monitor)
    /\ last' = [op |-> "stop_monitoring"]
    /\ UNCHANGED <<application, alert_manager, files, handler, checker, threads>>

IsMonitoring ==
    /\ last' = [op |-> "is_monitoring", result |-> is_monitoring(monitor)]
    /\ UNCHANGED <<application, components>>

\* The observer thread calls on_modified(event) of the handler scheduled on
\* the running observer; when the handler calls back, the thread is in the
\* callback until it returns.
OnModified(event) ==
    /\ ~handler.none
    /\ monitor.observers[handler.val.observer] = "running"
    /\ threads.observer = "idle"
    /\ LET done == on_modified(handler.val, event, files)
       IN  /\ handler' = Some(done.handler)
           /\ threads' = [threads EXCEPT
                             !.observer = IF done.called THEN "callback" ELSE "idle"]
           /\ last' = [op |-> "on_modified", event |-> event,
                       called |-> done.called, raised |-> done.raised]
    /\ UNCHANGED <<application, alert_manager, files, monitor, checker>>

\* The callback returns.
CallbackReturns ==
    /\ threads.observer = "callback"
    /\ threads' = [threads EXCEPT !.observer = "idle"]
    /\ last' = [op |-> "callback_returned"]
    /\ UNCHANGED <<application, alert_manager, files, handler, monitor, checker>>

NextMonitor ==
    \/ \E path \in Paths, mtime \in 0..MaxTime : Touch(path, mtime)
    \/ \E path \in Paths : RemoveFile(path)
    \/ \E path \in Paths, outcome \in ObserverOutcomes : StartMonitoring(path, outcome)
    \/ StopMonitoring
    \/ IsMonitoring
    \/ \E event \in Events : OnModified(event)
    \/ CallbackReturns

SpecMonitor == Init /\ [][NextMonitor]_vars

\* The periodic checker: callers execute start() and stop() a statement at a
\* time, and each thread start() made executes _run_checker.
\* The next statement of start(check_function) in caller c.
Start(c) ==
    LET me == threads.callers[c]
        id == Len(threads.checkers) + 1
    IN  /\ me.pc \in {"idle", "start_running", "start_thread", "start_start"}
        /\ CASE me.pc = "idle" ->
                  \* if self.running: return
                  /\ threads' = [threads EXCEPT !.callers[c].pc =
                                    IF checker.running THEN "idle" ELSE "start_running"]
                  /\ checker' = checker
                  /\ last' = [op |-> "start", caller |-> c, returned |-> checker.running]
             [] me.pc = "start_running" ->
                  \* self.running = True
                  /\ checker' = [checker EXCEPT !.running = TRUE]
                  /\ threads' = [threads EXCEPT !.callers[c].pc = "start_thread"]
                  /\ last' = [op |-> "start", caller |-> c, returned |-> FALSE]
             [] me.pc = "start_thread" ->
                  \* self.thread = threading.Thread(...); self.thread.daemon = True
                  /\ id <= MaxThreads
                  /\ checker' = [checker EXCEPT !.thread = id]
                  /\ threads' = [threads EXCEPT !.callers[c].pc = "start_start",
                                                !.checkers = Append(@, "new")]
                  /\ last' = [op |-> "start", caller |-> c, returned |-> FALSE]
             [] me.pc = "start_start" ->
                  \* self.thread.start(): RuntimeError for a thread started before
                  /\ checker' = checker
                  /\ threads' = [threads EXCEPT
                                    !.callers[c].pc = "idle",
                                    !.checkers[checker.thread] =
                                        IF @ = "new" THEN "test" ELSE @]
                  /\ last' = [op |-> "start", caller |-> c, returned |-> TRUE]
        /\ UNCHANGED <<application, alert_manager, files, handler, monitor>>

\* The next statement of stop() in caller c.
Stop(c) ==
    LET me == threads.callers[c]
    IN  /\ me.pc \in {"idle", "stop_thread", "stop_join"}
        /\ CASE me.pc = "idle" ->
                  \* self.running = False
                  /\ checker' = [checker EXCEPT !.running = FALSE]
                  /\ threads' = [threads EXCEPT !.callers[c].pc = "stop_thread"]
                  /\ last' = [op |-> "stop", caller |-> c, returned |-> FALSE]
             [] me.pc = "stop_thread" ->
                  \* if self.thread: self.thread.join() (RuntimeError for a
                  \* thread not started yet)
                  /\ checker' = checker
                  /\ threads' = [threads EXCEPT !.callers[c] =
                                    IF checker.thread = 0
                                       \/ threads.checkers[checker.thread] = "new"
                                    THEN [pc |-> "idle", thread |-> 0]
                                    ELSE [pc |-> "stop_join", thread |-> checker.thread]]
                  /\ last' = [op |-> "stop", caller |-> c,
                              returned |-> \/ checker.thread = 0
                                           \/ threads.checkers[checker.thread] = "new"]
             [] me.pc = "stop_join" ->
                  \* join() returns when the thread has ended
                  /\ threads.checkers[me.thread] = "done"
                  /\ checker' = checker
                  /\ threads' = [threads EXCEPT !.callers[c] = [pc |-> "idle", thread |-> 0]]
                  /\ last' = [op |-> "stop", caller |-> c, returned |-> TRUE]
        /\ UNCHANGED <<application, alert_manager, files, handler, monitor>>

\* The next statement of _run_checker(check_function) in thread t: the test of
\* the loop, check_function() returning (or raising, which is caught), and
\* time.sleep(self.interval) returning.
RunChecker(t) ==
    /\ t \in DOMAIN threads.checkers
    /\ threads.checkers[t] \in {"test", "check", "sleep"}
    /\ threads' = [threads EXCEPT !.checkers[t] =
                      CASE @ = "test" -> IF checker.running THEN "check" ELSE "done"
                        [] @ = "check" -> "sleep"
                        [] @ = "sleep" -> "test"]
    /\ UNCHANGED <<application, last, alert_manager, files, handler, monitor, checker>>

NextChecker ==
    \/ \E c \in Callers : Start(c)
    \/ \E c \in Callers : Stop(c)
    \/ \E t \in 1..MaxThreads : RunChecker(t)

SpecChecker == Init /\ [][NextChecker]_vars

\* The checker and the monitor together, each handed the ingestion of the
\* watched file as its check_function and its callback.
NextOverlap ==
    \/ Start("ui")
    \/ Stop("ui")
    \/ \E t \in 1..MaxThreads : RunChecker(t)
    \/ \E mtime \in 0..1 : Touch(WatchedPath, mtime)
    \/ StartMonitoring(WatchedPath, "started")
    \/ \E event \in Events : OnModified(event)
    \/ CallbackReturns

SpecOverlap == Init /\ [][NextOverlap]_vars

\* The script of app.py: a run of main() goes through the sidebar, the
\* dashboard and the auto-refresh; an interaction of the user starts a new run
\* wherever the script is.
\* The contents a file can have, and what load_excel gives for a content.
Contents == {1, 2}
ReadFile(content) == Some(Frame(<<Row(content, 1)>>))
\* What the user does: uploads a file, presses Manual Refresh, or touches
\* another widget; st.rerun() is a rerun too.
Interactions ==
    {[kind |-> "upload", content |-> c] : c \in Contents}
        \cup {[kind |-> "button", content |-> 0], [kind |-> "rerun", content |-> 0]}

\* main(), the sidebar (lines 46-108): the file the widget holds is written to
\* its path on every run, and processed when the path is not the one in
\* uploaded_file_path; Manual Refresh processes the path and reruns.
Sidebar(interaction, fail_at) ==
    LET me == threads.script
        uploaded_file == IF interaction.kind = "upload" THEN Some(interaction.content)
                         ELSE me.uploaded_file
        written == IF uploaded_file.none THEN files
                   ELSE [files EXCEPT ![WatchedPath] =
                            [exists |-> TRUE, mtime |-> now, content |-> uploaded_file.val]]
        new == ~uploaded_file.none /\ me.uploaded_file_path # Some(WatchedPath)
        path == IF new THEN Some(WatchedPath) ELSE me.uploaded_file_path
        button == interaction.kind = "button"
    IN  /\ me.pc = "rerun" => interaction.kind = "rerun"
        /\ files' = written
        /\ IF new \/ (button /\ ~path.none)
           THEN /\ Len(kpi_data) < MaxIngest
                /\ ProcessFile(Some([trigger |-> interaction.kind,
                                     content |-> written[path.val].content]),
                               ReadFile(written[path.val].content), fail_at)
           ELSE /\ fail_at = 0
                /\ last' = [op |-> "main", interaction |-> interaction]
                /\ UNCHANGED application
        /\ threads' = [threads EXCEPT !.script =
                          [pc |-> IF button THEN "rerun" ELSE "dashboard", since |-> now,
                           uploaded_file |-> uploaded_file, uploaded_file_path |-> path]]
        /\ UNCHANGED <<alert_manager, handler, monitor, checker>>

\* default_threshold = max(numeric_value * 0.8, 0) if numeric_value > 0 else 100
default_threshold(numeric_value) ==
    IF numeric_value.kind = "sqrt" /\ numeric_value.num > 0
    THEN Sqrt(16 * numeric_value.num, 25 * numeric_value.den)
    ELSE IF Lt(Whole(0), numeric_value) THEN RMul(numeric_value, Num(8, 10))
    ELSE Whole(100)

\* display_dashboard, the threshold configuration (lines 229-269) from the
\* i-th item on: every numeric KPI gets the threshold its number input holds,
\* which is the stored one or else the default.
RECURSIVE threshold_configuration(_, _, _, _)
threshold_configuration(table, limits, kpis, i) ==
    IF i > Len(kpis) THEN table
    ELSE LET kpi_name == kpis[i][1]
             current_threshold == IF kpi_name \in DOMAIN limits THEN limits[kpi_name]
                                  ELSE default_threshold(kpis[i][2])
         IN  threshold_configuration(
                 IF IsNumeric(kpis[i][2])
                 THEN update_threshold(table, kpi_name, current_threshold)
                 ELSE table,
                 limits, kpis, i + 1)

\* main(), the dashboard (lines 110-124).
Dashboard ==
    /\ threads.script.pc = "dashboard"
    /\ thresholds' =
          IF session.current_data.none THEN thresholds
          ELSE threshold_configuration(thresholds, get_thresholds(thresholds),
                                       calculate_kpis(session.current_data.val), 1)
    /\ threads' = [threads EXCEPT
                      !.script.pc = IF threads.script.uploaded_file_path.none
                                    THEN "idle" ELSE "sleeping",
                      !.script.since = now]
    /\ last' = [op |-> "dashboard"]
    /\ UNCHANGED <<now, kpi_data, alerts, sent, session, band,
                   alert_manager, files, handler, monitor, checker>>

\* main(), the auto-refresh (lines 126-134), time.sleep(30) being over.
AutoRefresh(fail_at) ==
    LET me == threads.script
        path == me.uploaded_file_path.val
    IN  /\ me.pc = "sleeping"
        /\ now > me.since
        /\ IF /\ files[path].exists
              /\ \/ session.last_update.none
                 \/ files[path].mtime > session.last_update.val
           THEN /\ Len(kpi_data) < MaxIngest
                /\ ProcessFile(Some([trigger |-> "auto_refresh",
                                     content |-> files[path].content]),
                               ReadFile(files[path].content), fail_at)
                /\ threads' = [threads EXCEPT !.script.pc = "rerun"]
           ELSE /\ fail_at = 0
                /\ last' = [op |-> "auto_refresh"]
                /\ threads' = [threads EXCEPT !.script.pc = "idle"]
                /\ UNCHANGED application
        /\ UNCHANGED <<alert_manager, files, handler, monitor, checker>>

NextRefresh ==
    \/ Tick
    \/ UpdateThreshold("revenue", Whole(7))
    \/ \E interaction \in Interactions, fail_at \in 0..1 : Sidebar(interaction, fail_at)
    \/ Dashboard
    \/ \E fail_at \in 0..1 : AutoRefresh(fail_at)

SpecRefresh == Init /\ [][NextRefresh]_vars

\* ------------------------------------------------------------------ claims
Range(s) == {s[i] : i \in 1..Len(s)}
IsPrefix(a, b) == Len(a) <= Len(b) /\ SubSeq(b, 1, Len(a)) = a

\* The band the specification gives a (current, threshold) pair.
SpecifiedBand(current, threshold) ==
    IF RLt(current, threshold) THEN "critical"
    ELSE IF RLt(current, RMul(threshold, Num(11, 10))) THEN "warning"
    ELSE "good"

\* C1: for every pair (current, threshold) the band is critical exactly when
\* current < threshold, warning exactly when threshold <= current <
\* threshold * 1.1 and good otherwise, both as get_kpi_status returns it and as
\* the dashboard shows it.
C1_BandsAsSpecified ==
    /\ band.status # "none" => band.status = SpecifiedBand(band.current, band.threshold)
    /\ band.dashboard # "none" =>
          band.dashboard = SpecifiedBand(band.current, band.threshold)

\* An ingestion cycle that got as far as check_thresholds.
Evaluated == last.op = "process_uploaded_file" /\ last.outcome \in {"success", "check_raised"}
Dispatched(kpi_name) == \E i \in 1..Len(last.messages) : last.messages[i].kpi_name = kpi_name

\* C2: in a cycle's check_thresholds a notification is dispatched for a KPI
\* if and only if the KPI is in the snapshot and in the thresholds and its
\* value is strictly below its threshold.
C2_DispatchIffBelowThreshold ==
    Evaluated =>
        \A i \in 1..Len(last.kpis) :
            LET kpi_name == last.kpis[i][1]
                kpi_value == last.kpis[i][2]
            IN  Dispatched(kpi_name) <=>
                    /\ kpi_name \in DOMAIN last.limits
                    /\ IsNumeric(kpi_value)
                    /\ Lt(kpi_value, last.limits[kpi_name])

\* C3: once a notification has been dispatched for a KPI, no further one for
\* the same KPI is dispatched within the cool-down window (24 hours).
C3_NoRepeatWithinCooldown ==
    \A i, j \in 1..Len(sent) :
        (i < j /\ sent[i].message.kpi_name = sent[j].message.kpi_name)
            => sent[i].at < HoursAgo(sent[j].at, DefaultHours)

\* C4: every notification check_thresholds dispatches is recorded as exactly
\* one row of the alerts table (kpi_name, current value, threshold value), so
\* the table has as many rows as there were dispatch decisions.
C4_EveryDispatchLogged ==
    /\ Len(alerts) = Len(sent)
    /\ \A i \in 1..Len(sent) :
          i <= Len(alerts) =>
              /\ alerts[i].kpi_name = sent[i].message.kpi_name
              /\ alerts[i].current_value = sent[i].message.current
              /\ alerts[i].threshold_value = sent[i].message.threshold

\* C5: a KPI whose snapshot value is a trend label is skipped by threshold
\* evaluation even when a threshold of its name exists: nothing is dispatched
\* for it, the evaluation does not raise, and the KPIs after it are evaluated.
C5_LabelsAreSkipped ==
    (Evaluated /\ \E i \in 1..Len(last.kpis) :
                     /\ last.kpis[i][2].kind = "label"
                     /\ last.kpis[i][1] \in DOMAIN last.limits)
        => /\ last.outcome = "success"
           /\ \A i \in 1..Len(last.kpis) :
                 LET kpi_name == last.kpis[i][1]
                     kpi_value == last.kpis[i][2]
                 IN  /\ kpi_value.kind = "label" => ~Dispatched(kpi_name)
                     /\ (/\ kpi_name \in DOMAIN last.limits
                         /\ kpi_value.kind = "num"
                         /\ RLt(kpi_value, last.limits[kpi_name]))
                            => Dispatched(kpi_name)

\* C6: update_threshold(k, v) leaves get_thresholds() with exactly one entry
\* for every name upserted so far, k mapped to v and every other name to the
\* value it had; repeating the same upsert changes nothing; no other operation
\* changes the thresholds.
C6_UpsertLastWriteWins ==
    [][LET before == get_thresholds(thresholds)
           after == get_thresholds(thresholds')
       IN  IF last'.op = "update_threshold"
           THEN LET k == last'.kpi_name
                    v == last'.threshold_value
                IN  /\ DOMAIN after = DOMAIN before \cup {k}
                    /\ after[k] = v
                    /\ \A o \in DOMAIN before \ {k} : after[o] = before[o]
                    /\ \A n \in DOMAIN after :
                          Cardinality({r \in thresholds' : r.kpi_name = n}) = 1
                    /\ (k \in DOMAIN before /\ before[k] = v) => thresholds' = thresholds
           ELSE after = before]_vars

\* An upsert replaced the row of a name that other names sit beside.
C6_Witness ==
    /\ last.op = "update_threshold"
    /\ last.replaced
    /\ last.kpi_name = "revenue"
    /\ Cardinality(thresholds) = 3
    /\ get_thresholds(thresholds)["revenue"] = Whole(2)

\* C7: a store_data(data, kpis) that succeeds on n rows appends exactly n
\* entries, one per row in order, each with the row's own revenue and cogs and
\* the snapshot's aggregate profit, profit_margin and growth_rate.
C7_OneEntryPerRow ==
    [][(last'.op = "store_data" /\ ~last'.raised) =>
          LET rows == last'.data.rows
              old == Len(kpi_data)
              total_revenue == SeqSum([i \in 1..Len(rows) |-> rows[i].revenue])
              total_cogs == SeqSum([i \in 1..Len(rows) |-> rows[i].cogs])
          IN  /\ Len(kpi_data') = old + Len(rows)
              /\ SubSeq(kpi_data', 1, old) = kpi_data
              /\ \A i \in 1..Len(rows) :
                    LET e == kpi_data'[old + i]
                    IN  /\ e.revenue = Whole(rows[i].revenue)
                        /\ e.cogs = Whole(rows[i].cogs)
                        /\ e.profit = Whole(total_revenue - total_cogs)
                        /\ e.profit_margin = Get(last'.kpis, "profit_margin", NaN)
                        /\ e.growth_rate = Get(last'.kpis, "growth_rate", NaN)]_vars

\* The same one-row frame has been stored twice: two entries, the same row.
C7_WitnessTwice ==
    /\ last.op = "store_data"
    /\ ~last.raised
    /\ Len(last.data.rows) = 1
    /\ Len(kpi_data) = 2
    /\ kpi_data[1].raw_data = kpi_data[2].raw_data
    /\ kpi_data[2].raw_data = last.data.rows[1]

\* A frame of several rows has been stored after another: the new entries'
\* own revenue differ, their profit is the frame's.
C7_Witness ==
    /\ last.op = "store_data"
    /\ ~last.raised
    /\ Len(kpi_data) = 3
    /\ Len(last.data.rows) = 2
    /\ kpi_data[2].revenue # kpi_data[3].revenue
    /\ kpi_data[2].profit = kpi_data[3].profit
    /\ kpi_data[2].profit # RSub(kpi_data[2].revenue, kpi_data[2].cogs)

\* C8: a store_data in which the write of any row fails leaves kpi_data as it
\* was (no row of the batch, the earlier entries unchanged) and raises.
C8_AllOrNothing ==
    [][(last'.op = "store_data" /\ last'.fail_at # 0) =>
          /\ kpi_data' = kpi_data
          /\ last'.raised]_vars

\* The write of a batch's second or later row failed, with entries in the table.
C8_Witness ==
    /\ last.op = "store_data"
    /\ last.fail_at >= 2
    /\ last.raised
    /\ kpi_data # <<>>

\* C9: cleanup_old_data(days = D) deletes no entry whose timestamp is within
\* the last D days, an entry exactly D days old included; right after it
\* get_historical_data(days = D) returns every entry left, the boundary ones
\* included; and whenever get_historical_data(days = D) runs, every entry it
\* returns has a timestamp within the last D days.
C9_RetentionBoundary ==
    /\ [][last'.op = "cleanup_old_data" =>
            LET cutoff == DaysAgo(now', last'.days)
                within(e) == e.timestamp >= cutoff
                query == get_historical_data(kpi_data', now', last'.days)
            IN  /\ SelectSeq(kpi_data', within) = SelectSeq(kpi_data, within)
                /\ \A e \in Range(query) : within(e)
                /\ \A e \in Range(kpi_data) : e.timestamp = cutoff => e \in Range(query)
                /\ Len(query) = Len(kpi_data')]_vars
    /\ [](last.op = "get_historical_data" =>
            \A e \in Range(last.result) : e.timestamp >= DaysAgo(now, last.days))

\* cleanup_old_data(days = 1) has deleted an entry and kept one exactly a day old.
C9_Witness ==
    /\ last.op = "cleanup_old_data"
    /\ last.days = 1
    /\ last.deleted > 0
    /\ \E e \in Range(kpi_data) : e.timestamp = DaysAgo(now, 1)

\* C10: no step modifies an existing kpi_data entry; entries are removed only
\* by cleanup_old_data and only when older than its horizon; every other
\* operation leaves the existing entries in place (store_data appends).
C10_AppendOnly ==
    [][IF last'.op = "cleanup_old_data"
       THEN /\ kpi_data' = SelectSeq(kpi_data, LAMBDA e : e \in Range(kpi_data'))
            /\ \A e \in Range(kpi_data) \ Range(kpi_data') :
                  e.timestamp < DaysAgo(now, last'.days)
       ELSE /\ IsPrefix(kpi_data, kpi_data')
            /\ last'.op # "store_data" => kpi_data' = kpi_data]_vars

\* A store has appended to a table that held older entries.
C10_Witness ==
    /\ last.op = "store_data"
    /\ ~last.raised
    /\ Len(kpi_data) > Len(last.data.rows)
    /\ kpi_data[1].timestamp < now

\* The sum of a column's cells over the rows of a dataset, an empty cell and a
\* column the dataset does not have adding nothing.
RECURSIVE CellSum(_, _, _)
CellSum(data, col, n) ==
    IF n = 0 THEN 0
    ELSE CellSum(data, col, n - 1) +
         (IF col \in data.rows[n].na
             \/ ~(IF col = "revenue" THEN data.has_revenue ELSE data.has_cogs)
          THEN 0 ELSE data.rows[n][col])
TotalOf(data, col) == CellSum(data, col, Len(data.rows))
Computed == last.op = "calculate_kpis" /\ last.data.rows # <<>>
Kpi(key) == Get(last.kpis, key, None)

\* C11: for every non-empty dataset calculate_kpis returns revenue = the sum of
\* the rows' revenue, cogs = the sum of the rows' cogs, profit = revenue - cogs
\* and profit_margin = 100 * profit / revenue when revenue > 0 and 0 otherwise;
\* Scenario A gives 300, 150, 150 and 50, and revenue = cogs gives profit 0 and
\* profit_margin 0.
C11_BasicKpis ==
    Computed =>
        LET revenue == TotalOf(last.data, "revenue")
            cogs == TotalOf(last.data, "cogs")
        IN  /\ Kpi("revenue") = Whole(revenue)
            /\ Kpi("cogs") = Whole(cogs)
            /\ Kpi("profit") = Whole(revenue - cogs)
            /\ Kpi("profit_margin") =
                  (IF revenue > 0 THEN Num(100 * (revenue - cogs), revenue) ELSE Whole(0))
            /\ (last.data = ScenarioA =>
                  /\ Kpi("revenue") = Whole(300)
                  /\ Kpi("cogs") = Whole(150)
                  /\ Kpi("profit") = Whole(150)
                  /\ Kpi("profit_margin") = Whole(50))
            /\ (revenue = cogs =>
                  Kpi("profit") = Whole(0) /\ Kpi("profit_margin") = Whole(0))

\* Scenario A has been computed, and so has a dataset with revenue = cogs > 0.
C11_Witness ==
    /\ Computed
    /\ last.data = ScenarioA
    /\ Kpi("profit_margin") = Whole(50)

\* C12: growth_rate is computed from the halves [0, n/2) and [n/2, n) of the
\* rows, which together cover all n rows (for odd n the middle row belongs to
\* the second half): 100 * (second - first) / first when first > 0, and 0 when
\* it is not or when n < 2.
C12_GrowthFromTwoHalves ==
    Computed /\ last.data.has_revenue =>
        LET n == Len(last.data.rows)
            first == CellSum(last.data, "revenue", n \div 2)
            second == TotalOf(last.data, "revenue") - first
        IN  Kpi("growth_rate") =
               (IF n >= 2 /\ first > 0
                THEN Num(100 * (second - first), first) ELSE Whole(0))

TrendKeys == {"revenue_trend", "revenue_change", "profit_trend", "profit_change"}
TrendLabels == {"increasing", "decreasing", "stable"}

\* C14: for every dataset with n >= 3 rows the snapshot holds revenue_trend and
\* revenue_change and likewise profit_trend and profit_change; each label is
\* 'increasing' exactly when its slope is > 0 and 'decreasing' otherwise, every
\* label is one of the three enumerated strings, and for n < 3 no trend key is
\* emitted.
C14_TrendsForThreeRows ==
    Computed /\ last.data.has_revenue /\ last.data.has_cogs =>
        IF Len(last.data.rows) >= 3
        THEN /\ TrendKeys \subseteq Keys(last.kpis)
             /\ \A name \in {"revenue", "profit"} :
                   /\ Kpi(name \o "_trend").kind = "label"
                   /\ Kpi(name \o "_trend").label \in TrendLabels
                   /\ Kpi(name \o "_trend").label =
                         (IF Lt(Whole(0), Kpi(name \o "_change"))
                          THEN "increasing" ELSE "decreasing")
        ELSE TrendKeys \cap Keys(last.kpis) = {}

\* C15: no value of the snapshot returned by calculate_kpis is NaN.
C15_NoNaNInSnapshot ==
    last.op = "calculate_kpis" =>
        \A i \in 1..Len(last.kpis) : last.kpis[i][2].kind # "nan"

\* The first column, in declaration order, whose lower-cased name holds one of
\* the words; None when no column does.
FirstMatch(columns, words) ==
    LET hits == {i \in 1..Len(columns) : AnyIn(words, Lower(columns[i]))}
    IN  IF hits = {} THEN None
        ELSE Some(columns[CHOOSE i \in hits : \A j \in hits : i <= j])
MappedTo(analysis, field) == Get(analysis.column_mappings.val, field, None)
HeuristicAnalysis == last.op = "analyze_excel_structure" /\ ~last.advisor.enabled

\* C16: heuristic schema resolution maps each canonical field to the first
\* column, in declaration order, whose normalized name matches the field's
\* synonym set; a later matching column never replaces an earlier match.
C16_FirstMatchWins ==
    /\ HeuristicAnalysis =>
          /\ MappedTo(last.result, "date") = FirstMatch(last.df.columns, FallbackDateWords)
          /\ MappedTo(last.result, "revenue") =
                FirstMatch(last.df.columns, FallbackRevenueWords)
          /\ MappedTo(last.result, "cogs") = FirstMatch(last.df.columns, FallbackCogsWords)
    /\ last.op = "find_columns" =>
          /\ last.result.date = FirstMatch(last.df.columns, FallbackDateWords)
          /\ last.result.revenue = FirstMatch(last.df.columns, FallbackRevenueWords)
    /\ last.op = "validate_data" =>
          LET names == [i \in 1..Len(last.df.columns) |->
                          Replace(Lower(last.df.columns[i]), " ", "_")]
          IN  /\ last.result.revenue = FirstMatch(names, ValidateRevenueWords)
              /\ last.result.cogs = FirstMatch(names, ValidateCogsWords)

\* C17: with no advisor available, resolving a table whose columns are
\* ["Total Sales", "Cost of Sales"] maps revenue to "Total Sales" and cogs to
\* "Cost of Sales" with confidence 0.5.
C17_ScenarioD ==
    HeuristicAnalysis /\ last.df.columns = <<TotalSales, CostOfSales>> =>
        /\ MappedTo(last.result, "revenue") = Some(TotalSales)
        /\ MappedTo(last.result, "cogs") = Some(CostOfSales)
        /\ last.result.confidence_score = Num(1, 2)

\* The words either heuristic knows a field by.
FieldWords(field) ==
    IF field = "revenue" THEN FallbackRevenueWords \o ValidateRevenueWords
    ELSE FallbackCogsWords \o ValidateCogsWords
\* The column an advisor's reply maps the field to, None when it maps it to
\* nothing the sheet has.
Suggested(df, reply, field) ==
    IF reply.kind = "json" /\ reply.value.shape = "dict"
       /\ reply.value.column_mappings \notin {None, Absent}
    THEN LET column == Get(reply.value.column_mappings.val, field, None)
         IN  IF ~column.none /\ HasColumn(df, column.val) THEN column ELSE None
    ELSE None
\* No column of the sheet matches the field and the advisor maps none to it.
Unresolved(file, field) ==
    /\ FirstMatch(file.df.columns, FieldWords(field)).none
    /\ ~file.advisor.enabled
       \/ /\ Suggested(file.df, file.advisor.first, field).none
          /\ Suggested(file.df, file.advisor.second, field).none

\* C18: an ingestion cycle proceeds to KPI computation and persistence only if
\* both revenue and cogs resolved to a column: a sheet in which revenue or cogs
\* is unresolved is refused, and process_uploaded_file then writes nothing to
\* history and dispatches nothing.
C18_RequiredFieldsOrNothing ==
    [][(/\ last'.op = "process_uploaded_file"
        /\ ~last'.file.none
        /\ \E field \in {"revenue", "cogs"} : Unresolved(last'.file.val, field))
       => /\ last'.outcome = "rejected"
          /\ kpi_data' = kpi_data
          /\ sent' = sent]_vars

\* The analysis in which each field is mapped as the advisor's reply maps it,
\* and as the heuristic maps it where the reply leaves it unresolved.
Completed(df, reply) ==
    LET heuristic == fallback_analysis(df).column_mappings.val
    IN  Analysis(Some([i \in 1..Len(heuristic) |->
                    IF Suggested(df, reply, heuristic[i][1]).none THEN heuristic[i]
                    ELSE <<heuristic[i][1], Suggested(df, reply, heuristic[i][1])>>]),
                 Num(19, 20))

\* C19: whatever the advisor does (raises, returns empty content, content that
\* is no JSON, or JSON of the wrong shape), load_excel does not fail because of
\* it: each field the advisor left unresolved is resolved by the heuristic, and
\* the result is the dataset the heuristic alone gives for those fields.
C19_AdvisorNeverFailsTheLoad ==
    last.op = "load_excel" /\ last.advisor.enabled =>
        LET completed == Json(Completed(last.df, last.advisor.second))
        IN  last.result = load_excel(last.df, Advisor(TRUE, completed, completed))

\* C20: every row of the dataset that normalization hands on has its revenue
\* and its cogs present and non-negative, on the advisor path and on the
\* traditional path: a row whose revenue or cogs cell is empty or fails
\* numeric coercion is dropped, never kept.
C20_RowsAreComplete ==
    last.op \in {"load_excel", "fallback_processing"} /\ ~last.result.none =>
        LET data == last.result.val
        IN  \A i \in 1..Len(data.rows) :
               /\ data.rows[i].na = {}
               /\ data.has_revenue => data.rows[i].revenue >= 0
               /\ data.has_cogs => data.rows[i].cogs >= 0

\* The entries the step appends to the log of send_alert.
NewlySent == SubSeq(sent', Len(sent) + 1, Len(sent'))
\* The items of a snapshot that are numbers below their threshold.
Due(kpis, limits) ==
    SelectSeq(kpis, LAMBDA item : /\ item[1] \in DOMAIN limits
                                  /\ IsNumeric(item[2])
                                  /\ Lt(item[2], limits[item[1]]))
\* The attempt got the answer that means delivered.
Delivered(attempt) ==
    \/ attempt.channel = "whatsapp" /\ attempt.response = "200"
    \/ attempt.channel = "slack" /\ attempt.response = "ok"

\* C21: with both channels configured, send_alert attempts WhatsApp and Slack
\* exactly once each for a message, whatever the other channel answers (a
\* failure answer or an exception), and returns True exactly when one of the
\* two delivered; and check_thresholds calls send_alert for every KPI that is
\* below its threshold, whatever the dispatches before it did.
C21_ChannelsAreIsolated ==
    [][last'.op = "check_thresholds" /\ ~last'.raised =>
          LET due == Due(last'.kpis, last'.limits)
          IN  /\ Len(NewlySent) = Len(due)
              /\ \A i \in 1..Len(NewlySent) :
                    /\ NewlySent[i].message.kpi_name = due[i][1]
                    /\ whatsapp_configured(alert_manager) /\ slack_configured(alert_manager)
                          => /\ Len(NewlySent[i].attempts) = 2
                             /\ NewlySent[i].attempts[1].channel = "whatsapp"
                             /\ NewlySent[i].attempts[2].channel = "slack"
                             /\ NewlySent[i].success
                                   <=> \E a \in Range(NewlySent[i].attempts) : Delivered(a)]_vars

\* A check dispatched for two KPIs with both channels configured: for the
\* first WhatsApp raised and Slack answered with an error, for the second
\* WhatsApp delivered and Slack was tried all the same.
C21_Witness ==
    /\ last.op = "check_thresholds"
    /\ Len(last.messages) = 2
    /\ Len(sent) = 2
    /\ whatsapp_configured(alert_manager) /\ slack_configured(alert_manager)
    /\ sent[1].attempts = <<[channel |-> "whatsapp", response |-> "raised"],
                            [channel |-> "slack", response |-> "error"]>>
    /\ ~sent[1].success
    /\ sent[2].attempts = <<[channel |-> "whatsapp", response |-> "200"],
                            [channel |-> "slack", response |-> "raised"]>>
    /\ sent[2].success

\* C22: when store_data fails in process_uploaded_file the cycle ends there
\* and the failure is reported: nothing is sent for the cycle, current_data
\* and last_update keep their values, and no row of the batch is in kpi_data.
C22_StoreFailureEndsTheCycle ==
    [][last'.op = "process_uploaded_file" /\ last'.outcome = "store_failed" =>
          /\ kpi_data' = kpi_data
          /\ sent' = sent
          /\ last'.messages = <<>>
          /\ session'.current_data = session.current_data
          /\ session'.last_update = session.last_update]_vars

\* A cycle whose store_data failed, after one that succeeded, with the revenue
\* below its threshold.
C22_Witness ==
    /\ last.op = "process_uploaded_file"
    /\ last.outcome = "store_failed"
    /\ Due(last.kpis, last.limits) # <<>>
    /\ kpi_data # <<>>
    /\ ~session.current_data.none

\* C29: on_modified calls back only for an event that is no directory event,
\* whose path is the watched file's, the file's modification time being
\* strictly greater than last_modified, and last_modified is that time when
\* the callback runs; any other event leaves the handler as it was and causes
\* no callback; last_modified of a handler never decreases.
C29_CallbackOnlyForNewerFile ==
    [][/\ last'.op = "on_modified" =>
             LET h == handler.val
                 after == handler'.val
                 newer == /\ ~last'.event.is_directory
                          /\ last'.event.src_path = h.file_path
                          /\ files[h.file_path].exists
                          /\ files[h.file_path].mtime > h.last_modified
             IN  /\ last'.called <=> newer
                 /\ last'.called <=> threads'.observer = "callback"
                 /\ last'.called =>
                       after = [h EXCEPT !.last_modified = files[h.file_path].mtime,
                                         !.callbacks = h.callbacks + 1]
                 /\ ~last'.called => after = h
       /\ (~handler.none /\ ~handler'.none
              /\ handler'.val.observer = handler.val.observer)
             => /\ handler'.val.last_modified >= handler.val.last_modified
                /\ handler'.val.callbacks >= handler.val.callbacks]_vars

\* The handler has called back twice, the second time for the event handled
\* last.
C29_Witness ==
    /\ last.op = "on_modified"
    /\ last.called
    /\ handler.val.callbacks = 2
    /\ handler.val.last_modified = files[handler.val.file_path].mtime

\* The observers that run.
Running == {i \in DOMAIN monitor.observers : monitor.observers[i] = "running"}

Looping ==
    {t \in DOMAIN threads.checkers : threads.checkers[t] \in {"test", "check", "sleep"}}
Checking == {t \in DOMAIN threads.checkers : threads.checkers[t] = "check"}

\* C23: once stop() has set running to False, a checker thread finishes the
\* check it is in and then starts neither a sleep nor a check before it ends;
\* and no check starts once stop() has returned.
C23_CancellableAtCycleBoundary ==
    [][\A t \in DOMAIN threads.checkers :
          /\ ~checker.running =>
                /\ threads'.checkers[t] = "sleep" => threads.checkers[t] = "sleep"
                /\ threads'.checkers[t] = "check" => threads.checkers[t] = "check"
          /\ last.op = "stop" /\ last.returned =>
                (threads'.checkers[t] = "check" => threads.checkers[t] = "check")]_vars

\* The ingestions in flight: check_function in a checker thread, the callback
\* in the observer thread.
InFlight ==
    {<<"checker", t>> : t \in Checking}
        \cup (IF threads.observer = "callback" THEN {<<"observer", 0>>} ELSE {})

\* C24: at most one ingestion of the watched file is in flight at any time.
C24_AtMostOneInFlight == Cardinality(InFlight) <= 1

\* C25: under every interleaving of start() and stop() calls at most one
\* thread executes _run_checker, and when a stop() has returned, no start()
\* having come after it, no checker thread is looping.
C25_OneCheckerThread ==
    /\ Cardinality(Looping) <= 1
    /\ (/\ last.op = "stop"
        /\ last.returned
        /\ \A c \in Callers : threads.callers[c].pc = "idle") => Looping = {}

\* C26: once a file has been ingested, an ingestion that the upload handling
\* or the auto-refresh starts (not the Manual Refresh button) is of a content
\* other than the one ingested last: for an unchanged file reruns and refresh
\* cycles add no history entries and send no alerts.
C26_UnchangedFileIsNotIngestedAgain ==
    [][(/\ last'.op = "process_uploaded_file"
        /\ last'.file.val.trigger # "button"
        /\ Len(kpi_data') > Len(kpi_data)
        /\ kpi_data # <<>>)
          => kpi_data'[Len(kpi_data')].raw_data # kpi_data[Len(kpi_data)].raw_data]_vars

\* The sum of the numbers in column c of the rows of df at `places`.
RECURSIVE SumAt(_, _, _)
SumAt(df, c, places) ==
    IF places = <<>> THEN 0
    ELSE (IF df.rows[Head(places)][c].kind = "number" THEN df.rows[Head(places)][c].val ELSE 0)
         + SumAt(df, c, Tail(places))

\* C27: the dataset fallback_processing returns for a table validate_data
\* accepts has a revenue and a cogs column, the two columns validate_data
\* matched are distinct, and calculate_revenue and calculate_cogs give the sums
\* of the matched columns.
C27_AcceptedTableHasRevenueAndCogs ==
    (last.op = "fallback_processing" /\ ~last.result.none) =>
        LET cleaned == clean_data(last.df)
            found == found_columns(cleaned)
            data == last.result.val
        IN  /\ data.has_revenue
            /\ data.has_cogs
            /\ found.revenue.val # found.cogs.val
            /\ calculate_revenue(data)
                  = SumAt(cleaned, ColumnAt(cleaned, found.revenue.val), cleaned.kept)
            /\ calculate_cogs(data)
                  = SumAt(cleaned, ColumnAt(cleaned, found.cogs.val), cleaned.kept)

\* C28: get_kpi_status, the banding of the dashboard and the colouring of the
\* comparison chart put every pair (current_value, threshold) in the same band.
C28_BandingPlacesAgree ==
    (band.status # "none" /\ band.dashboard # "none" /\ band.chart # "none")
        => band.status = band.dashboard /\ band.dashboard = band.chart

====
